---- MODULE Spec2Model ----
(***************************************************************************)
(* zodbtools: the zodbdump wire format (writer and DumpReader), the commit *)
(* engine zodbcommit, and the drivers zodbrestore and zodbsync, modelled   *)
(* at the level of bytes, records and storage calls.                       *)
(*                                                                         *)
(* Byte strings are sequences of byte values (0..255).  Transaction and    *)
(* object identifiers are held as naturals and converted with p64/u64.     *)
(***************************************************************************)
EXTENDS Integers, Sequences, FiniteSets, TLC

VARIABLES
  zin,       \* DumpReader._r: the bytes of the input stream
  zr,        \* DumpReader: [pos, lineno, line] position in the stream
  rtxns,     \* transactions returned so far by readtxn
  rres,      \* outcome of the last readtxn call
  src,       \* the records the input stream was written from
  stor,      \* storage under zodbcommit / zodbrestore / secondary of zodbsync
  prim,      \* primary storage of zodbsync / storage dumped for zodbrestore
  at,        \* the caller's idea of the storage head
  calls,     \* storage calls issued by the last zodbcommit, in order
  cres,      \* outcome of the last zodbcommit call
  ctxn,      \* the transaction handed to the last zodbcommit call
  cat,       \* the `at` handed to the last zodbcommit call
  cpre,      \* the storage as it was before the last zodbcommit call
  it,        \* zodbsync: the primary transactions its iterator has yet to yield
  until,     \* zodbsync: its argument until; -1 stands for None
  runs,      \* zodbsync: the calls made so far for the replication under way
  dargs,     \* zodbdump: [tidmin, tidmax, hashonly] of the last call, its output in zin
  cmd,       \* a command or comparison: [rc, stdout], rc = -1 while it has not ended
  ex,        \* zodbtraverse: the Explorer, its SQLite table and its checkpoint file
  pc         \* position of the running driver

vars == <<zin, zr, rtxns, rres, src, stor, prim, at, calls, cres, ctxn, cat, cpre, it, until, runs, dargs, cmd, ex, pc>>

----------------------------------------------------------------------------
\* Bounds of the model.

\* calls of zodbsync made for one replication: the first one and those that resume it
MaxRuns == 2

\* longest object payload written into a dump
MaxDataLen == 1
\* most transactions in a written dump / in a storage history
MaxTxns == 2
\* most object records in one transaction
MaxObjs == 2

----------------------------------------------------------------------------
\* Byte values used by the format.

LF == 10
SP == 32
DQUOTE == 34
BACKSLASH == 92

\* no command has ended, nothing was printed
NoOut == [rc |-> -1, stdout |-> <<>>]

\* Python's None for an optional byte string, and a present value
None == [some |-> FALSE, v |-> <<>>]
Some(x) == [some |-> TRUE, v |-> x]

Max(a, b) == IF a >= b THEN a ELSE b
Min(a, b) == IF a <= b THEN a ELSE b

\* s[from..] as a sequence
DropFirst(s, n) == SubSeq(s, n + 1, Len(s))

\* byte-string prefix test: l.startswith(p)
startswith(l, p) == Len(l) >= Len(p) /\ SubSeq(l, 1, Len(p)) = p

RECURSIVE Concat(_)
Concat(ss) == IF ss = <<>> THEN <<>> ELSE Head(ss) \o Concat(Tail(ss))

SetMin(S) == CHOOSE x \in S : \A y \in S : x <= y

\* a count that finds no occurrence
count_nothing(data, b) == 0

\* data.count(b)
count(data, b) == Cardinality({k \in 1..Len(data) : data[k] = b})

----------------------------------------------------------------------------
\* Hex and decimal conversions.

IsDigit(c) == c >= 48 /\ c <= 57
IsLowerHex(c) == IsDigit(c) \/ (c >= 97 /\ c <= 102)
IsHex(c) == IsLowerHex(c) \/ (c >= 65 /\ c <= 70)
\* \w of a bytes pattern: [a-zA-Z0-9_]
IsWord(c) == IsDigit(c) \/ (c >= 97 /\ c <= 122) \/ (c >= 65 /\ c <= 90) \/ c = 95

HexDigit(n) == IF n < 10 THEN 48 + n ELSE 87 + n
HexValue(c) == IF IsDigit(c) THEN c - 48 ELSE IF c >= 97 THEN c - 87 ELSE c - 55

\* codecs.encode(s, 'hex'): two lowercase hex digits per byte
ashex(s) ==
  [k \in 1..(2 * Len(s)) |->
     IF k % 2 = 1 THEN HexDigit(s[(k + 1) \div 2] \div 16) ELSE HexDigit(s[k \div 2] % 16)]

\* codecs.decode(s, 'hex') of a string of hex digits of even length
fromhex(s) ==
  [k \in 1..(Len(s) \div 2) |-> HexValue(s[2 * k - 1]) * 16 + HexValue(s[2 * k])]

\* ZODB.utils.p64: 8-byte big-endian packing (identifiers of the model are < 65536)
p64(n) == <<0, 0, 0, 0, 0, 0, n \div 256, n % 256>>

RECURSIVE u64acc(_, _)
u64acc(s, acc) == IF s = <<>> THEN acc ELSE u64acc(Tail(s), acc * 256 + Head(s))
\* ZODB.utils.u64: 8-byte big-endian unpacking
u64(s) == u64acc(s, 0)

z64 == u64(<<0, 0, 0, 0, 0, 0, 0, 0>>)

RECURSIVE DecDigits(_)
DecDigits(n) == IF n < 10 THEN <<48 + n>> ELSE DecDigits(n \div 10) \o <<48 + (n % 10)>>
\* b"%d" % n
fmt_d(n) == DecDigits(n)

RECURSIVE intacc(_, _)
intacc(s, acc) == IF s = <<>> THEN acc ELSE intacc(Tail(s), acc * 10 + (Head(s) - 48))
\* int(s) of a string of decimal digits
int(s) == intacc(s, 0)

----------------------------------------------------------------------------
\* Quoting of metadata (golang.gcompat.qq / golang.strconv.unquote).

IsPrintable(c) == c >= 32 /\ c <= 126

\* the bytes strconv.quote emits for one byte of an ASCII string
QuoteByte(c) ==
  IF c = DQUOTE \/ c = BACKSLASH THEN <<BACKSLASH, c>>
  ELSE IF IsPrintable(c) THEN <<c>>
  ELSE IF c = 9 THEN <<BACKSLASH, 116>>
  ELSE IF c = LF THEN <<BACKSLASH, 110>>
  ELSE IF c = 13 THEN <<BACKSLASH, 114>>
  ELSE <<BACKSLASH, 120, HexDigit(c \div 16), HexDigit(c % 16)>>

RECURSIVE QuoteBody(_)
QuoteBody(s) == IF s = <<>> THEN <<>> ELSE QuoteByte(Head(s)) \o QuoteBody(Tail(s))

\* qq(s): s wrapped in "..." with ", \ and non-printable bytes \-escaped
qq(s) == <<DQUOTE>> \o QuoteBody(s) \o <<DQUOTE>>

\* the byte a one-letter escape \c stands for; -1 when \c is no such escape
SimpleEscape(c) ==
  CASE c = DQUOTE    -> DQUOTE
    [] c = BACKSLASH -> BACKSLASH
    [] c = 97  -> 7
    [] c = 98  -> 8
    [] c = 102 -> 12
    [] c = 110 -> LF
    [] c = 114 -> 13
    [] c = 116 -> 9
    [] c = 118 -> 11
    [] OTHER   -> -1

RECURSIVE UnquoteBody(_, _, _)
\* scans s from i, inside the quotes; acc holds the bytes decoded so far.
\* Result: [ok |-> TRUE, val |-> bytes] when the closing quote ends s,
\*         [ok |-> FALSE] on a malformed escape, a missing closing quote or a tail.
UnquoteBody(s, i, acc) ==
  IF i > Len(s) THEN [ok |-> FALSE, val |-> <<>>]
  ELSE IF s[i] = DQUOTE THEN [ok |-> (i = Len(s)), val |-> acc]
  ELSE IF s[i] # BACKSLASH THEN UnquoteBody(s, i + 1, Append(acc, s[i]))
  ELSE IF i + 1 > Len(s) THEN [ok |-> FALSE, val |-> <<>>]
  ELSE IF SimpleEscape(s[i + 1]) >= 0
       THEN UnquoteBody(s, i + 2, Append(acc, SimpleEscape(s[i + 1])))
  ELSE IF s[i + 1] = 120 /\ i + 3 <= Len(s) /\ IsHex(s[i + 2]) /\ IsHex(s[i + 3])
       THEN UnquoteBody(s, i + 4, Append(acc, HexValue(s[i + 2]) * 16 + HexValue(s[i + 3])))
  ELSE [ok |-> FALSE, val |-> <<>>]

\* strconv.unquote(s): the inverse of qq; ok = FALSE stands for ValueError
unquote(s) ==
  IF Len(s) < 2 \/ s[1] # DQUOTE THEN [ok |-> FALSE, val |-> <<>>]
  ELSE UnquoteBody(s, 2, <<>>)

----------------------------------------------------------------------------
\* Hash registry (util.py).

\* names of the registered hash functions, as they stand in a dump
N_null    == <<110, 117, 108, 108>>
N_adler32 == <<97, 100, 108, 101, 114, 51, 50>>
N_crc32   == <<99, 114, 99, 51, 50>>
N_sha1    == <<115, 104, 97, 49>>
N_sha256  == <<115, 104, 97, 50, 53, 54>>
N_sha512  == <<115, 104, 97, 53, 49, 50>>

\* keys of hashRegistry
hashRegistry == {N_null, N_adler32, N_crc32, N_sha1, N_sha256, N_sha512}

\* NullHasher.digest()
NullHasher(data) == <<0>>

\* modulus of the Adler-32 checksum (zlib)
AdlerMod == 65521

RECURSIVE AdlerAB(_, _, _)
AdlerAB(data, a, b) ==
  IF data = <<>> THEN <<a, b>>
  ELSE AdlerAB(Tail(data), (a + Head(data)) % AdlerMod, (b + ((a + Head(data)) % AdlerMod)) % AdlerMod)

\* Adler32Hasher.digest(): struct.pack('>I', adler32(data))
Adler32Hasher(data) ==
  LET ab == AdlerAB(data, 1, 0)
  IN  <<ab[2] \div 256, ab[2] % 256, ab[1] \div 256, ab[1] % 256>>

\* CRC32Hasher.digest(): struct.pack('>I', crc32(data)).
\* Tabulated over the payloads of up to 3 bytes drawn from LF, '0' and 'x';
\* a payload outside the table gets the empty digest, which no declared hash equals.
crc32(data) ==
  CASE data = <<>> -> <<0, 0, 0, 0>>
    [] data = <<10>> -> <<50, 215, 6, 147>>
    [] data = <<48>> -> <<244, 219, 223, 33>>
    [] data = <<120>> -> <<140, 220, 22, 131>>
    [] data = <<10, 10>> -> <<91, 227, 19, 107>>
    [] data = <<10, 48>> -> <<157, 239, 202, 217>>
    [] data = <<10, 120>> -> <<229, 232, 3, 123>>
    [] data = <<48, 10>> -> <<126, 74, 205, 18>>
    [] data = <<48, 48>> -> <<184, 70, 20, 160>>
    [] data = <<48, 120>> -> <<192, 65, 221, 2>>
    [] data = <<120, 10>> -> <<70, 234, 8, 31>>
    [] data = <<120, 48>> -> <<128, 230, 209, 173>>
    [] data = <<120, 120>> -> <<248, 225, 24, 15>>
    [] data = <<10, 10, 10>> -> <<232, 236, 93, 80>>
    [] data = <<10, 10, 48>> -> <<46, 224, 132, 226>>
    [] data = <<10, 10, 120>> -> <<86, 231, 77, 64>>
    [] data = <<10, 48, 10>> -> <<205, 69, 131, 41>>
    [] data = <<10, 48, 48>> -> <<11, 73, 90, 155>>
    [] data = <<10, 48, 120>> -> <<115, 78, 147, 57>>
    [] data = <<10, 120, 10>> -> <<245, 229, 70, 36>>
    [] data = <<10, 120, 48>> -> <<51, 233, 159, 150>>
    [] data = <<10, 120, 120>> -> <<75, 238, 86, 52>>
    [] data = <<48, 10, 10>> -> <<193, 16, 61, 22>>
    [] data = <<48, 10, 48>> -> <<7, 28, 228, 164>>
    [] data = <<48, 10, 120>> -> <<127, 27, 45, 6>>
    [] data = <<48, 48, 10>> -> <<228, 185, 227, 111>>
    [] data = <<48, 48, 48>> -> <<34, 181, 58, 221>>
    [] data = <<48, 48, 120>> -> <<90, 178, 243, 127>>
    [] data = <<48, 120, 10>> -> <<220, 25, 38, 98>>
    [] data = <<48, 120, 48>> -> <<26, 21, 255, 208>>
    [] data = <<48, 120, 120>> -> <<98, 18, 54, 114>>
    [] data = <<120, 10, 10>> -> <<191, 153, 225, 110>>
    [] data = <<120, 10, 48>> -> <<121, 149, 56, 220>>
    [] data = <<120, 10, 120>> -> <<1, 146, 241, 126>>
    [] data = <<120, 48, 10>> -> <<154, 48, 63, 23>>
    [] data = <<120, 48, 48>> -> <<92, 60, 230, 165>>
    [] data = <<120, 48, 120>> -> <<36, 59, 47, 7>>
    [] data = <<120, 120, 10>> -> <<162, 144, 250, 26>>
    [] data = <<120, 120, 48>> -> <<100, 156, 35, 168>>
    [] data = <<120, 120, 120>> -> <<28, 155, 234, 10>>
    [] OTHER -> <<>>

\* hashlib.sha1(data).digest().
\* Tabulated over the payloads of up to 3 bytes drawn from LF, '0' and 'x';
\* a payload outside the table gets the empty digest, which no declared hash equals.
sha1(data) ==
  CASE data = <<>> -> <<218, 57, 163, 238, 94, 107, 75, 13, 50, 85, 191, 239, 149, 96, 24, 144, 175, 216, 7, 9>>
    [] data = <<10>> -> <<173, 200, 59, 25, 231, 147, 73, 27, 28, 110, 160, 253, 139, 70, 205, 159, 50, 229, 146, 252>>
    [] data = <<48>> -> <<182, 88, 159, 198, 171, 13, 200, 44, 241, 32, 153, 209, 194, 212, 10, 185, 148, 232, 65, 12>>
    [] data = <<120>> -> <<17, 246, 173, 142, 197, 42, 41, 132, 171, 170, 253, 124, 59, 81, 101, 3, 120, 92, 32, 114>>
    [] data = <<10, 10>> -> <<113, 133, 60, 97, 151, 166, 167, 242, 34, 219, 15, 25, 120, 199, 203, 35, 43, 135, 197, 238>>
    [] data = <<10, 48>> -> <<124, 2, 144, 245, 27, 182, 14, 35, 26, 60, 5, 66, 127, 117, 50, 183, 97, 232, 28, 215>>
    [] data = <<10, 120>> -> <<40, 106, 132, 238, 149, 10, 7, 11, 12, 209, 249, 219, 6, 120, 78, 16, 14, 174, 88, 141>>
    [] data = <<48, 10>> -> <<9, 210, 175, 141, 210, 34, 1, 221, 141, 72, 229, 220, 252, 174, 210, 129, 255, 148, 34, 199>>
    [] data = <<48, 48>> -> <<251, 150, 84, 150, 49, 200, 53, 235, 35, 156, 214, 20, 204, 107, 92, 183, 210, 149, 18, 26>>
    [] data = <<48, 120>> -> <<26, 52, 157, 204, 84, 10, 57, 120, 88, 69, 16, 217, 130, 7, 95, 131, 139, 23, 205, 109>>
    [] data = <<120, 10>> -> <<111, 207, 157, 251, 212, 121, 237, 130, 105, 127, 238, 113, 155, 159, 140, 97, 10, 17, 255, 42>>
    [] data = <<120, 48>> -> <<44, 124, 26, 114, 122, 210, 130, 170, 174, 91, 16, 45, 215, 228, 228, 99, 250, 226, 45, 213>>
    [] data = <<120, 120>> -> <<221, 123, 123, 116, 234, 22, 14, 4, 157, 209, 40, 71, 142, 7, 76, 228, 114, 84, 189, 232>>
    [] data = <<10, 10, 10>> -> <<124, 51, 142, 210, 132, 13, 43, 245, 95, 159, 94, 78, 237, 4, 246, 108, 128, 132, 14, 179>>
    [] data = <<10, 10, 48>> -> <<89, 11, 174, 96, 28, 106, 95, 218, 118, 24, 14, 16, 224, 73, 165, 171, 132, 177, 105, 60>>
    [] data = <<10, 10, 120>> -> <<249, 87, 208, 219, 172, 78, 93, 106, 53, 189, 101, 6, 102, 203, 29, 191, 23, 250, 184, 90>>
    [] data = <<10, 48, 10>> -> <<116, 88, 27, 242, 244, 127, 221, 197, 196, 18, 105, 239, 72, 138, 185, 214, 85, 14, 233, 153>>
    [] data = <<10, 48, 48>> -> <<9, 105, 13, 75, 123, 239, 70, 173, 219, 148, 97, 22, 61, 17, 149, 155, 187, 155, 127, 235>>
    [] data = <<10, 48, 120>> -> <<129, 240, 6, 17, 29, 128, 186, 183, 108, 137, 195, 95, 124, 104, 211, 243, 123, 224, 45, 135>>
    [] data = <<10, 120, 10>> -> <<230, 184, 52, 125, 68, 126, 2, 237, 56, 58, 62, 150, 152, 104, 21, 213, 118, 251, 42, 90>>
    [] data = <<10, 120, 48>> -> <<217, 89, 101, 79, 137, 97, 188, 20, 12, 186, 229, 22, 79, 205, 57, 147, 3, 204, 48, 202>>
    [] data = <<10, 120, 120>> -> <<158, 55, 156, 98, 117, 99, 97, 14, 102, 169, 6, 189, 48, 210, 178, 8, 162, 188, 232, 236>>
    [] data = <<48, 10, 10>> -> <<10, 182, 168, 228, 57, 103, 45, 104, 226, 48, 85, 232, 51, 111, 117, 201, 86, 144, 18, 10>>
    [] data = <<48, 10, 48>> -> <<148, 111, 246, 119, 168, 165, 123, 233, 214, 108, 93, 102, 246, 141, 82, 21, 158, 227, 14, 129>>
    [] data = <<48, 10, 120>> -> <<231, 168, 205, 181, 9, 102, 255, 33, 90, 216, 39, 240, 241, 72, 172, 63, 104, 103, 140, 155>>
    [] data = <<48, 48, 10>> -> <<24, 141, 81, 70, 107, 242, 48, 48, 156, 125, 35, 45, 176, 88, 220, 87, 74, 93, 245, 179>>
    [] data = <<48, 48, 48>> -> <<138, 239, 176, 108, 66, 110, 7, 160, 166, 113, 161, 226, 72, 139, 72, 88, 214, 148, 167, 48>>
    [] data = <<48, 48, 120>> -> <<51, 46, 99, 180, 74, 247, 164, 33, 167, 165, 34, 155, 138, 203, 194, 217, 126, 229, 60, 196>>
    [] data = <<48, 120, 10>> -> <<211, 112, 80, 249, 136, 161, 23, 111, 42, 70, 186, 54, 124, 33, 90, 70, 9, 110, 62, 5>>
    [] data = <<48, 120, 48>> -> <<252, 97, 126, 119, 210, 254, 213, 181, 144, 18, 195, 113, 230, 60, 55, 165, 244, 140, 35, 99>>
    [] data = <<48, 120, 120>> -> <<185, 191, 138, 117, 27, 212, 95, 108, 102, 225, 44, 163, 49, 1, 63, 23, 239, 152, 86, 183>>
    [] data = <<120, 10, 10>> -> <<13, 173, 158, 157, 68, 239, 67, 155, 89, 223, 222, 158, 32, 118, 217, 15, 183, 137, 246, 103>>
    [] data = <<120, 10, 48>> -> <<82, 154, 170, 194, 120, 165, 198, 161, 212, 151, 42, 127, 57, 25, 115, 255, 251, 178, 138, 73>>
    [] data = <<120, 10, 120>> -> <<157, 108, 33, 11, 25, 30, 154, 178, 171, 115, 209, 66, 61, 127, 216, 241, 147, 136, 163, 69>>
    [] data = <<120, 48, 10>> -> <<139, 37, 51, 246, 118, 107, 170, 195, 156, 204, 167, 50, 214, 177, 236, 217, 136, 39, 231, 143>>
    [] data = <<120, 48, 48>> -> <<231, 93, 151, 78, 61, 26, 194, 243, 140, 224, 16, 105, 72, 15, 134, 45, 228, 114, 30, 8>>
    [] data = <<120, 48, 120>> -> <<112, 104, 38, 234, 210, 48, 103, 127, 16, 55, 76, 93, 20, 237, 139, 209, 76, 153, 26, 189>>
    [] data = <<120, 120, 10>> -> <<206, 58, 247, 118, 15, 18, 137, 208, 43, 246, 167, 173, 25, 243, 33, 76, 78, 92, 124, 46>>
    [] data = <<120, 120, 48>> -> <<77, 159, 67, 253, 97, 10, 26, 192, 146, 89, 220, 11, 43, 55, 2, 118, 175, 144, 173, 127>>
    [] data = <<120, 120, 120>> -> <<182, 13, 18, 27, 67, 138, 56, 12, 52, 61, 94, 195, 194, 3, 117, 100, 184, 47, 254, 243>>
    [] OTHER -> <<>>

\* hashlib.sha256(data).digest().
\* Tabulated over the payloads of up to 3 bytes drawn from LF, '0' and 'x';
\* a payload outside the table gets the empty digest, which no declared hash equals.
sha256(data) ==
  CASE data = <<>> -> <<227, 176, 196, 66, 152, 252, 28, 20, 154, 251, 244, 200, 153, 111, 185, 36, 39, 174, 65, 228, 100, 155, 147, 76, 164, 149, 153, 27, 120, 82, 184, 85>>
    [] data = <<10>> -> <<1, 186, 71, 25, 200, 11, 111, 233, 17, 176, 145, 167, 192, 81, 36, 182, 78, 238, 206, 150, 78, 9, 192, 88, 239, 143, 152, 5, 218, 202, 84, 107>>
    [] data = <<48>> -> <<95, 236, 235, 102, 255, 200, 111, 56, 217, 82, 120, 108, 109, 105, 108, 121, 194, 219, 194, 57, 221, 78, 145, 180, 103, 41, 215, 58, 39, 251, 87, 233>>
    [] data = <<120>> -> <<45, 113, 22, 66, 183, 38, 176, 68, 1, 98, 124, 169, 251, 172, 50, 245, 200, 83, 15, 177, 144, 60, 196, 219, 2, 37, 135, 23, 146, 26, 72, 129>>
    [] data = <<10, 10>> -> <<117, 161, 29, 164, 76, 128, 36, 134, 188, 111, 101, 100, 10, 164, 138, 115, 15, 15, 104, 76, 92, 7, 164, 43, 163, 205, 23, 53, 235, 63, 176, 112>>
    [] data = <<10, 48>> -> <<199, 117, 124, 8, 150, 203, 254, 97, 130, 216, 234, 43, 218, 74, 139, 249, 74, 221, 196, 40, 152, 14, 237, 171, 134, 9, 197, 124, 167, 255, 23, 99>>
    [] data = <<10, 120>> -> <<187, 229, 109, 124, 45, 15, 31, 114, 113, 235, 111, 130, 152, 0, 89, 138, 10, 28, 90, 84, 240, 156, 180, 156, 71, 96, 126, 6, 152, 175, 125, 111>>
    [] data = <<48, 10>> -> <<154, 39, 31, 42, 145, 107, 11, 110, 230, 206, 203, 36, 38, 240, 179, 32, 110, 240, 116, 87, 139, 229, 93, 155, 201, 79, 111, 63, 227, 171, 134, 170>>
    [] data = <<48, 48>> -> <<241, 83, 67, 146, 39, 155, 221, 191, 157, 67, 221, 232, 112, 28, 181, 190, 20, 184, 47, 118, 236, 102, 7, 191, 141, 106, 213, 87, 246, 15, 48, 78>>
    [] data = <<48, 120>> -> <<165, 73, 66, 200, 227, 101, 243, 120, 79, 56, 184, 212, 55, 249, 215, 8, 41, 13, 182, 7, 56, 176, 12, 220, 251, 147, 76, 50, 209, 190, 151, 243>>
    [] data = <<120, 10>> -> <<115, 203, 56, 88, 166, 135, 168, 73, 76, 163, 50, 48, 83, 1, 98, 130, 243, 218, 211, 157, 66, 207, 98, 202, 78, 121, 221, 162, 170, 199, 217, 172>>
    [] data = <<120, 48>> -> <<183, 10, 20, 238, 30, 21, 215, 170, 148, 189, 129, 14, 192, 111, 76, 183, 122, 52, 110, 143, 51, 174, 246, 191, 234, 227, 215, 196, 68, 45, 122, 147>>
    [] data = <<120, 120>> -> <<93, 222, 137, 104, 135, 246, 117, 76, 155, 21, 191, 227, 164, 65, 174, 72, 6, 223, 47, 222, 148, 0, 19, 17, 224, 139, 241, 16, 98, 46, 11, 190>>
    [] data = <<10, 10, 10>> -> <<106, 60, 245, 25, 35, 84, 247, 22, 21, 172, 81, 3, 75, 62, 151, 194, 14, 218, 153, 100, 63, 202, 245, 187, 230, 212, 26, 213, 155, 209, 33, 103>>
    [] data = <<10, 10, 48>> -> <<139, 206, 72, 197, 120, 237, 100, 183, 105, 92, 214, 198, 33, 122, 220, 212, 174, 6, 112, 240, 3, 9, 52, 12, 134, 113, 165, 61, 187, 157, 61, 14>>
    [] data = <<10, 10, 120>> -> <<90, 62, 26, 171, 130, 169, 53, 194, 149, 151, 151, 88, 122, 51, 30, 30, 212, 22, 192, 122, 48, 92, 249, 125, 206, 162, 85, 242, 44, 235, 110, 254>>
    [] data = <<10, 48, 10>> -> <<60, 139, 131, 21, 184, 229, 71, 223, 51, 97, 87, 249, 123, 248, 128, 84, 149, 77, 42, 237, 58, 251, 65, 133, 55, 141, 149, 130, 238, 100, 226, 117>>
    [] data = <<10, 48, 48>> -> <<10, 63, 233, 68, 83, 252, 241, 132, 186, 113, 185, 2, 29, 82, 162, 81, 205, 78, 58, 211, 59, 227, 87, 107, 132, 175, 43, 97, 72, 227, 183, 139>>
    [] data = <<10, 48, 120>> -> <<255, 185, 57, 147, 16, 38, 79, 53, 212, 151, 20, 13, 224, 104, 202, 20, 36, 203, 223, 187, 89, 165, 30, 170, 208, 192, 142, 98, 179, 105, 118, 232>>
    [] data = <<10, 120, 10>> -> <<210, 63, 155, 64, 118, 245, 95, 30, 101, 12, 89, 63, 128, 244, 81, 242, 9, 77, 197, 156, 206, 71, 12, 6, 62, 178, 42, 234, 99, 228, 203, 57>>
    [] data = <<10, 120, 48>> -> <<20, 79, 48, 94, 168, 131, 215, 105, 213, 66, 208, 243, 124, 161, 138, 175, 74, 53, 201, 82, 10, 165, 210, 34, 103, 152, 134, 151, 19, 204, 54, 227>>
    [] data = <<10, 120, 120>> -> <<103, 30, 232, 184, 23, 218, 121, 51, 112, 145, 178, 134, 27, 144, 81, 214, 8, 108, 48, 74, 255, 186, 2, 186, 59, 169, 237, 113, 235, 114, 103, 17>>
    [] data = <<48, 10, 10>> -> <<116, 208, 26, 12, 5, 28, 150, 61, 154, 155, 138, 185, 219, 234, 177, 114, 63, 10, 216, 83, 78, 169, 250, 106, 148, 47, 53, 141, 127, 160, 17, 180>>
    [] data = <<48, 10, 48>> -> <<117, 128, 8, 239, 185, 200, 86, 109, 38, 180, 174, 102, 131, 175, 222, 154, 224, 15, 235, 97, 193, 210, 219, 215, 203, 140, 9, 189, 163, 13, 38, 39>>
    [] data = <<48, 10, 120>> -> <<250, 157, 27, 2, 104, 6, 139, 73, 240, 5, 59, 141, 47, 231, 179, 171, 18, 66, 2, 43, 105, 183, 113, 139, 228, 115, 66, 9, 100, 146, 86, 108>>
    [] data = <<48, 48, 10>> -> <<217, 178, 174, 251, 31, 235, 226, 221, 110, 64, 63, 99, 78, 24, 145, 122, 140, 13, 209, 164, 64, 201, 118, 233, 254, 18, 107, 70, 90, 233, 252, 141>>
    [] data = <<48, 48, 48>> -> <<42, 201, 166, 116, 106, 202, 84, 58, 248, 223, 243, 152, 148, 207, 232, 23, 58, 251, 162, 30, 176, 28, 111, 174, 51, 213, 41, 71, 34, 40, 85, 239>>
    [] data = <<48, 48, 120>> -> <<197, 174, 133, 227, 176, 17, 160, 224, 225, 72, 45, 9, 239, 104, 255, 39, 241, 134, 209, 244, 187, 169, 136, 65, 161, 72, 190, 102, 241, 30, 130, 41>>
    [] data = <<48, 120, 10>> -> <<208, 160, 12, 128, 174, 72, 112, 29, 231, 86, 231, 165, 165, 165, 158, 171, 178, 92, 113, 205, 96, 185, 206, 229, 161, 147, 232, 149, 178, 91, 22, 63>>
    [] data = <<48, 120, 48>> -> <<184, 173, 27, 210, 255, 80, 2, 31, 246, 161, 35, 149, 133, 204, 156, 205, 227, 30, 112, 7, 34, 153, 195, 204, 145, 13, 165, 79, 158, 121, 31, 124>>
    [] data = <<48, 120, 120>> -> <<84, 8, 70, 160, 69, 166, 193, 3, 98, 224, 128, 62, 50, 254, 138, 181, 194, 178, 125, 57, 30, 144, 135, 166, 221, 14, 247, 143, 181, 251, 98, 70>>
    [] data = <<120, 10, 10>> -> <<209, 50, 156, 109, 18, 132, 232, 136, 104, 13, 181, 176, 54, 25, 252, 8, 189, 241, 238, 11, 23, 44, 148, 108, 166, 209, 241, 143, 94, 164, 13, 97>>
    [] data = <<120, 10, 48>> -> <<146, 65, 69, 19, 117, 113, 208, 48, 98, 54, 16, 211, 240, 52, 192, 70, 104, 147, 135, 51, 89, 176, 6, 98, 239, 9, 232, 192, 91, 210, 112, 163>>
    [] data = <<120, 10, 120>> -> <<15, 160, 175, 206, 218, 133, 41, 51, 50, 154, 144, 119, 19, 242, 50, 161, 96, 33, 203, 38, 191, 19, 149, 16, 140, 235, 167, 181, 200, 18, 89, 199>>
    [] data = <<120, 48, 10>> -> <<103, 100, 93, 9, 66, 114, 129, 238, 2, 106, 131, 100, 110, 81, 126, 183, 121, 230, 252, 85, 34, 231, 10, 48, 198, 151, 8, 38, 248, 14, 27, 162>>
    [] data = <<120, 48, 48>> -> <<187, 165, 50, 214, 161, 19, 30, 77, 167, 180, 224, 223, 137, 197, 139, 22, 3, 102, 161, 226, 131, 151, 47, 170, 147, 172, 144, 55, 81, 28, 102, 140>>
    [] data = <<120, 48, 120>> -> <<205, 28, 251, 67, 11, 238, 100, 208, 169, 117, 77, 47, 122, 233, 235, 85, 147, 240, 254, 180, 182, 54, 120, 223, 28, 142, 159, 103, 138, 252, 8, 248>>
    [] data = <<120, 120, 10>> -> <<52, 141, 244, 235, 71, 249, 35, 11, 254, 137, 99, 122, 254, 116, 9, 190, 200, 131, 66, 77, 130, 34, 87, 182, 203, 188, 233, 62, 231, 128, 217, 146>>
    [] data = <<120, 120, 48>> -> <<187, 54, 158, 3, 138, 75, 1, 134, 151, 242, 28, 223, 84, 177, 135, 245, 39, 5, 85, 185, 79, 235, 163, 60, 173, 92, 190, 14, 134, 106, 15, 184>>
    [] data = <<120, 120, 120>> -> <<205, 46, 176, 131, 124, 155, 76, 150, 44, 34, 210, 255, 139, 84, 65, 183, 180, 88, 5, 136, 127, 5, 29, 57, 191, 19, 59, 88, 59, 175, 104, 96>>
    [] OTHER -> <<>>

\* hashlib.sha512(data).digest().
\* Tabulated over the payloads of up to 3 bytes drawn from LF, '0' and 'x';
\* a payload outside the table gets the empty digest, which no declared hash equals.
sha512(data) ==
  CASE data = <<>> -> <<207, 131, 225, 53, 126, 239, 184, 189, 241, 84, 40, 80, 214, 109, 128, 7, 214, 32, 228, 5, 11, 87, 21, 220, 131, 244, 169, 33, 211, 108, 233, 206, 71, 208, 209, 60, 93, 133, 242, 176, 255, 131, 24, 210, 135, 126, 236, 47, 99, 185, 49, 189, 71, 65, 122, 129, 165, 56, 50, 122, 249, 39, 218, 62>>
    [] data = <<10>> -> <<190, 104, 136, 56, 202, 134, 134, 229, 201, 6, 137, 191, 42, 181, 133, 206, 241, 19, 124, 153, 155, 72, 199, 11, 146, 246, 122, 92, 52, 220, 21, 105, 123, 93, 17, 201, 130, 237, 109, 113, 190, 30, 30, 127, 123, 78, 7, 51, 136, 74, 169, 124, 63, 122, 51, 154, 142, 208, 53, 119, 207, 116, 190, 9>>
    [] data = <<48>> -> <<49, 188, 160, 32, 148, 235, 120, 18, 106, 81, 123, 32, 106, 136, 199, 60, 250, 158, 198, 247, 4, 199, 3, 13, 24, 33, 44, 172, 232, 32, 240, 37, 240, 11, 240, 234, 104, 219, 243, 243, 165, 67, 108, 166, 59, 83, 191, 123, 248, 10, 216, 213, 222, 125, 131, 89, 208, 183, 254, 217, 219, 195, 171, 153>>
    [] data = <<120>> -> <<164, 171, 212, 68, 140, 73, 86, 45, 130, 129, 21, 209, 58, 31, 204, 234, 146, 127, 82, 180, 213, 69, 146, 151, 248, 180, 62, 66, 218, 137, 35, 139, 193, 54, 38, 228, 61, 203, 56, 221, 176, 130, 72, 137, 39, 236, 144, 79, 180, 32, 87, 68, 57, 131, 232, 133, 133, 23, 157, 80, 85, 26, 254, 98>>
    [] data = <<10, 10>> -> <<1, 107, 168, 196, 207, 222, 101, 175, 153, 203, 95, 168, 184, 163, 126, 46, 183, 63, 72, 27, 58, 227, 73, 145, 102, 109, 242, 224, 79, 235, 108, 3, 134, 102, 235, 209, 236, 43, 111, 98, 57, 103, 117, 96, 51, 199, 2, 221, 229, 244, 35, 247, 212, 122, 182, 237, 24, 39, 255, 83, 120, 55, 49, 247>>
    [] data = <<10, 48>> -> <<111, 99, 132, 20, 221, 144, 71, 222, 208, 170, 123, 91, 108, 204, 140, 204, 139, 79, 35, 8, 76, 222, 176, 141, 227, 170, 121, 237, 77, 43, 191, 171, 174, 180, 157, 205, 231, 224, 136, 52, 94, 172, 42, 205, 41, 193, 170, 239, 48, 131, 179, 229, 33, 203, 236, 247, 145, 142, 66, 13, 115, 52, 165, 186>>
    [] data = <<10, 120>> -> <<117, 29, 178, 178, 207, 179, 160, 219, 91, 62, 171, 15, 66, 74, 221, 142, 50, 102, 226, 8, 150, 79, 55, 81, 100, 209, 208, 193, 107, 38, 102, 228, 33, 83, 63, 44, 125, 52, 176, 40, 72, 180, 85, 170, 135, 105, 134, 28, 245, 56, 231, 184, 214, 206, 222, 59, 54, 176, 27, 63, 143, 67, 120, 49>>
    [] data = <<48, 10>> -> <<165, 70, 209, 48, 15, 73, 3, 122, 70, 94, 206, 200, 188, 30, 189, 7, 213, 112, 21, 165, 255, 26, 191, 161, 201, 77, 169, 179, 5, 118, 147, 63, 182, 142, 56, 152, 255, 118, 77, 77, 230, 230, 116, 29, 168, 34, 167, 201, 58, 220, 110, 132, 88, 6, 162, 102, 166, 58, 161, 76, 139, 176, 158, 187>>
    [] data = <<48, 48>> -> <<138, 179, 54, 28, 5, 26, 151, 221, 195, 198, 101, 210, 159, 39, 98, 248, 172, 66, 64, 208, 137, 149, 248, 114, 75, 109, 7, 216, 203, 237, 211, 44, 40, 245, 137, 204, 218, 229, 20, 242, 10, 108, 142, 234, 111, 117, 84, 8, 221, 61, 214, 131, 125, 102, 147, 44, 162, 53, 46, 174, 171, 89, 68, 39>>
    [] data = <<48, 120>> -> <<21, 115, 114, 202, 131, 49, 102, 237, 47, 241, 50, 38, 134, 53, 109, 227, 43, 72, 114, 132, 15, 125, 82, 206, 101, 157, 27, 84, 111, 148, 191, 248, 49, 77, 188, 50, 56, 163, 209, 95, 50, 181, 164, 59, 115, 172, 70, 27, 238, 30, 196, 230, 19, 238, 70, 24, 160, 204, 175, 231, 29, 107, 35, 172>>
    [] data = <<120, 10>> -> <<69, 132, 54, 72, 236, 249, 218, 142, 81, 50, 134, 241, 54, 227, 242, 113, 231, 214, 222, 228, 210, 155, 148, 122, 80, 221, 232, 198, 31, 62, 25, 118, 148, 193, 59, 205, 194, 121, 206, 69, 152, 57, 117, 124, 216, 222, 25, 193, 27, 35, 179, 53, 101, 56, 74, 151, 175, 207, 54, 4, 131, 87, 140, 212>>
    [] data = <<120, 48>> -> <<198, 183, 24, 174, 164, 248, 244, 201, 21, 245, 90, 31, 44, 153, 39, 80, 240, 243, 121, 192, 221, 111, 67, 218, 209, 158, 243, 35, 180, 12, 63, 230, 3, 81, 61, 209, 62, 171, 61, 218, 127, 103, 49, 209, 62, 219, 84, 93, 44, 38, 176, 94, 241, 145, 176, 26, 136, 117, 71, 125, 117, 61, 13, 130>>
    [] data = <<120, 120>> -> <<41, 76, 142, 45, 89, 45, 139, 19, 222, 146, 253, 109, 130, 84, 179, 58, 79, 77, 129, 110, 6, 236, 28, 21, 140, 22, 74, 128, 138, 61, 129, 100, 49, 105, 8, 221, 37, 128, 190, 17, 102, 14, 253, 131, 51, 209, 240, 241, 107, 72, 105, 203, 47, 185, 74, 101, 124, 253, 142, 61, 221, 188, 151, 20>>
    [] data = <<10, 10, 10>> -> <<255, 159, 1, 11, 91, 221, 117, 145, 208, 82, 253, 184, 207, 198, 231, 184, 66, 248, 249, 115, 171, 55, 169, 30, 165, 225, 100, 73, 193, 126, 146, 120, 217, 249, 95, 38, 91, 5, 8, 240, 131, 52, 131, 118, 174, 177, 109, 127, 2, 183, 184, 108, 222, 99, 78, 140, 159, 135, 82, 135, 4, 147, 96, 222>>
    [] data = <<10, 10, 48>> -> <<176, 35, 111, 38, 178, 242, 212, 94, 130, 252, 166, 237, 118, 131, 39, 8, 68, 91, 228, 80, 222, 81, 244, 222, 178, 167, 181, 107, 150, 169, 13, 251, 141, 164, 173, 185, 150, 124, 163, 61, 70, 246, 79, 159, 15, 25, 129, 79, 216, 64, 177, 135, 168, 250, 56, 55, 58, 95, 234, 58, 81, 241, 177, 94>>
    [] data = <<10, 10, 120>> -> <<128, 121, 24, 201, 196, 103, 245, 26, 79, 46, 185, 142, 231, 141, 71, 209, 23, 64, 72, 239, 156, 97, 114, 20, 38, 123, 244, 192, 230, 205, 52, 154, 230, 99, 219, 84, 163, 4, 227, 4, 247, 62, 189, 210, 228, 235, 90, 41, 8, 218, 75, 100, 98, 168, 185, 241, 50, 143, 119, 55, 185, 249, 226, 219>>
    [] data = <<10, 48, 10>> -> <<231, 32, 216, 236, 64, 70, 186, 34, 124, 67, 103, 147, 246, 215, 183, 230, 88, 53, 86, 52, 183, 228, 191, 53, 135, 126, 212, 97, 137, 124, 192, 9, 75, 48, 159, 95, 155, 162, 47, 149, 119, 92, 163, 225, 181, 112, 190, 153, 32, 172, 139, 178, 194, 120, 241, 52, 175, 16, 134, 97, 14, 111, 127, 146>>
    [] data = <<10, 48, 48>> -> <<186, 119, 227, 121, 104, 111, 41, 194, 87, 229, 53, 52, 229, 116, 110, 85, 205, 230, 208, 170, 231, 33, 253, 129, 55, 31, 53, 123, 154, 90, 157, 189, 248, 11, 156, 42, 146, 218, 19, 146, 140, 89, 72, 167, 229, 106, 73, 9, 212, 243, 254, 234, 26, 108, 75, 122, 134, 0, 76, 165, 62, 58, 193, 226>>
    [] data = <<10, 48, 120>> -> <<34, 247, 192, 153, 51, 186, 40, 17, 196, 96, 104, 57, 83, 183, 116, 148, 233, 87, 3, 171, 25, 106, 36, 228, 12, 57, 95, 72, 92, 167, 23, 250, 81, 85, 60, 57, 40, 78, 52, 136, 44, 134, 7, 244, 127, 206, 20, 112, 4, 254, 29, 178, 177, 98, 203, 161, 55, 39, 80, 220, 44, 134, 159, 224>>
    [] data = <<10, 120, 10>> -> <<22, 212, 11, 15, 113, 201, 69, 42, 209, 13, 25, 6, 65, 144, 60, 73, 3, 8, 105, 185, 164, 153, 16, 131, 130, 38, 149, 230, 3, 78, 120, 220, 185, 248, 124, 92, 97, 124, 133, 175, 20, 125, 189, 123, 157, 34, 103, 247, 100, 54, 26, 215, 239, 24, 121, 174, 83, 158, 144, 123, 199, 116, 170, 71>>
    [] data = <<10, 120, 48>> -> <<20, 18, 134, 169, 214, 215, 111, 115, 200, 120, 35, 125, 241, 240, 31, 98, 77, 125, 150, 143, 248, 153, 99, 166, 186, 215, 130, 150, 80, 71, 199, 173, 247, 14, 255, 33, 121, 136, 126, 99, 35, 143, 97, 38, 15, 175, 52, 181, 51, 2, 78, 52, 96, 158, 31, 220, 186, 238, 183, 198, 192, 158, 64, 56>>
    [] data = <<10, 120, 120>> -> <<76, 33, 130, 64, 173, 45, 207, 111, 181, 116, 120, 43, 156, 82, 208, 229, 13, 231, 125, 102, 195, 196, 99, 45, 71, 11, 173, 126, 18, 70, 58, 211, 194, 68, 120, 86, 92, 254, 92, 75, 82, 16, 185, 49, 178, 104, 62, 7, 19, 185, 48, 222, 174, 195, 220, 8, 140, 228, 186, 96, 233, 137, 56, 9>>
    [] data = <<48, 10, 10>> -> <<94, 82, 139, 157, 236, 8, 78, 244, 32, 142, 255, 6, 179, 221, 252, 151, 16, 4, 17, 50, 199, 3, 229, 136, 246, 110, 94, 122, 153, 30, 221, 166, 255, 41, 105, 244, 47, 88, 156, 140, 206, 42, 37, 117, 156, 24, 97, 235, 155, 2, 13, 172, 120, 195, 97, 223, 126, 9, 112, 2, 1, 113, 248, 75>>
    [] data = <<48, 10, 48>> -> <<61, 248, 50, 55, 131, 113, 246, 232, 84, 101, 31, 24, 215, 131, 10, 32, 21, 166, 213, 160, 245, 148, 235, 169, 220, 0, 139, 232, 66, 79, 237, 106, 48, 187, 56, 47, 10, 139, 66, 154, 163, 107, 203, 86, 232, 122, 162, 188, 203, 41, 36, 128, 5, 175, 112, 143, 28, 162, 230, 69, 36, 179, 180, 147>>
    [] data = <<48, 10, 120>> -> <<212, 172, 17, 163, 202, 67, 148, 187, 141, 108, 33, 30, 213, 114, 233, 166, 152, 147, 94, 126, 26, 16, 133, 19, 198, 243, 223, 174, 72, 85, 2, 160, 11, 155, 27, 138, 15, 34, 75, 35, 60, 72, 153, 153, 146, 134, 81, 60, 191, 134, 244, 217, 123, 84, 106, 65, 182, 43, 114, 15, 42, 54, 15, 167>>
    [] data = <<48, 48, 10>> -> <<78, 247, 92, 103, 187, 143, 240, 243, 201, 97, 172, 110, 208, 185, 157, 247, 244, 204, 99, 33, 90, 30, 225, 201, 84, 115, 1, 66, 236, 174, 1, 0, 119, 96, 171, 25, 111, 160, 56, 60, 82, 6, 124, 148, 89, 252, 33, 89, 189, 122, 226, 151, 137, 17, 150, 227, 164, 120, 29, 73, 124, 174, 67, 121>>
    [] data = <<48, 48, 48>> -> <<189, 194, 71, 161, 160, 226, 138, 88, 110, 212, 7, 68, 210, 129, 153, 61, 81, 154, 190, 152, 26, 174, 243, 50, 119, 212, 135, 125, 22, 126, 17, 80, 129, 110, 151, 35, 208, 104, 165, 149, 9, 153, 30, 208, 205, 216, 197, 206, 160, 249, 236, 208, 239, 35, 102, 77, 183, 203, 133, 219, 90, 13, 190, 18>>
    [] data = <<48, 48, 120>> -> <<150, 83, 52, 10, 214, 100, 156, 230, 211, 75, 198, 234, 120, 44, 159, 84, 201, 209, 223, 223, 22, 170, 145, 126, 30, 213, 32, 62, 147, 155, 37, 56, 40, 58, 113, 143, 184, 53, 222, 149, 229, 188, 117, 40, 123, 37, 196, 89, 15, 140, 149, 190, 2, 190, 213, 81, 19, 182, 64, 77, 24, 53, 123, 97>>
    [] data = <<48, 120, 10>> -> <<169, 142, 168, 13, 79, 61, 186, 130, 42, 123, 223, 173, 57, 196, 41, 66, 115, 158, 61, 108, 28, 143, 97, 92, 98, 193, 22, 155, 180, 98, 190, 81, 0, 159, 43, 186, 23, 228, 109, 163, 5, 81, 244, 24, 185, 166, 146, 108, 245, 172, 242, 139, 132, 68, 157, 23, 27, 137, 36, 208, 224, 176, 99, 200>>
    [] data = <<48, 120, 48>> -> <<192, 196, 188, 252, 92, 101, 138, 107, 100, 161, 109, 98, 80, 151, 109, 66, 40, 176, 173, 43, 216, 30, 48, 152, 231, 183, 171, 31, 79, 88, 135, 57, 61, 162, 60, 252, 20, 144, 41, 166, 253, 213, 214, 185, 185, 71, 149, 68, 226, 249, 89, 240, 52, 59, 91, 118, 69, 38, 4, 163, 55, 202, 93, 33>>
    [] data = <<48, 120, 120>> -> <<227, 191, 30, 210, 168, 142, 189, 176, 108, 122, 79, 32, 44, 159, 151, 167, 81, 82, 87, 144, 142, 66, 200, 127, 214, 138, 63, 212, 115, 122, 8, 161, 66, 176, 76, 213, 159, 122, 226, 63, 125, 251, 174, 140, 239, 52, 225, 136, 65, 240, 47, 110, 209, 90, 44, 98, 63, 92, 234, 229, 33, 199, 153, 119>>
    [] data = <<120, 10, 10>> -> <<151, 28, 26, 86, 37, 68, 207, 64, 175, 7, 132, 108, 40, 90, 21, 83, 49, 61, 49, 250, 153, 19, 127, 246, 170, 210, 250, 203, 238, 180, 76, 235, 77, 244, 135, 110, 91, 254, 57, 147, 175, 29, 3, 247, 150, 138, 132, 36, 103, 234, 134, 181, 170, 125, 221, 29, 220, 220, 156, 1, 19, 208, 233, 243>>
    [] data = <<120, 10, 48>> -> <<0, 200, 51, 137, 6, 98, 81, 21, 92, 208, 148, 16, 135, 242, 65, 81, 127, 125, 201, 176, 74, 239, 242, 208, 96, 169, 210, 138, 47, 54, 67, 162, 42, 23, 49, 125, 64, 219, 91, 31, 70, 41, 143, 239, 218, 179, 13, 191, 250, 237, 225, 143, 178, 110, 234, 223, 124, 54, 89, 218, 162, 22, 177, 241>>
    [] data = <<120, 10, 120>> -> <<127, 230, 156, 43, 228, 110, 143, 240, 197, 66, 198, 59, 79, 229, 241, 31, 57, 186, 254, 158, 126, 185, 200, 40, 163, 16, 149, 241, 87, 255, 6, 104, 165, 1, 100, 170, 61, 31, 68, 134, 93, 177, 145, 74, 190, 206, 184, 45, 86, 238, 148, 44, 196, 41, 121, 74, 86, 81, 186, 220, 232, 113, 213, 1>>
    [] data = <<120, 48, 10>> -> <<64, 217, 148, 169, 82, 12, 116, 201, 255, 243, 242, 35, 78, 203, 164, 229, 45, 14, 9, 244, 205, 249, 27, 58, 162, 167, 223, 166, 70, 105, 137, 21, 164, 0, 149, 17, 110, 67, 36, 109, 150, 202, 194, 138, 80, 69, 142, 138, 45, 196, 102, 12, 96, 170, 211, 104, 81, 132, 59, 12, 41, 249, 157, 191>>
    [] data = <<120, 48, 48>> -> <<167, 252, 0, 102, 59, 55, 106, 193, 54, 28, 81, 12, 130, 66, 79, 20, 238, 62, 108, 213, 72, 110, 68, 9, 85, 19, 117, 89, 87, 57, 236, 160, 20, 164, 243, 174, 99, 167, 178, 38, 181, 178, 18, 179, 63, 158, 189, 230, 220, 124, 86, 224, 168, 49, 47, 117, 176, 146, 91, 81, 186, 231, 163, 174>>
    [] data = <<120, 48, 120>> -> <<86, 149, 150, 210, 164, 23, 132, 203, 58, 106, 53, 222, 3, 236, 197, 193, 87, 126, 209, 173, 84, 73, 213, 212, 136, 14, 8, 253, 54, 217, 175, 109, 173, 252, 130, 108, 33, 39, 166, 194, 106, 150, 164, 233, 0, 114, 91, 99, 92, 3, 53, 226, 3, 221, 121, 228, 88, 235, 47, 226, 14, 77, 115, 37>>
    [] data = <<120, 120, 10>> -> <<215, 155, 76, 48, 124, 5, 85, 75, 172, 110, 142, 84, 200, 203, 104, 132, 210, 145, 226, 205, 20, 54, 217, 211, 169, 39, 124, 208, 236, 239, 97, 149, 169, 84, 30, 137, 204, 131, 247, 138, 90, 125, 136, 111, 199, 198, 22, 63, 175, 171, 108, 17, 23, 168, 121, 34, 246, 25, 96, 53, 107, 8, 100, 22>>
    [] data = <<120, 120, 48>> -> <<133, 131, 58, 40, 98, 175, 146, 106, 16, 217, 177, 12, 153, 148, 51, 215, 3, 253, 120, 69, 69, 88, 33, 253, 109, 94, 56, 32, 20, 61, 142, 1, 219, 60, 174, 159, 52, 107, 174, 248, 178, 237, 21, 92, 3, 212, 214, 12, 38, 46, 225, 133, 81, 21, 109, 224, 111, 171, 77, 50, 42, 131, 96, 36>>
    [] data = <<120, 120, 120>> -> <<144, 87, 255, 26, 169, 80, 155, 42, 10, 246, 36, 214, 135, 70, 29, 43, 190, 176, 126, 47, 55, 217, 83, 177, 206, 74, 157, 201, 33, 167, 241, 156, 69, 220, 53, 215, 197, 54, 59, 55, 55, 146, 173, 213, 125, 13, 125, 196, 21, 150, 225, 197, 133, 214, 239, 120, 68, 205, 248, 174, 135, 175, 68, 63>>
    [] OTHER -> <<>>


\* hcls().update(data).digest() for a registered name
Digest(hashfunc, data) ==
  CASE hashfunc = N_null    -> NullHasher(data)
    [] hashfunc = N_adler32 -> Adler32Hasher(data)
    [] hashfunc = N_crc32   -> crc32(data)
    [] hashfunc = N_sha1    -> sha1(data)
    [] hashfunc = N_sha256  -> sha256(data)
    [] hashfunc = N_sha512  -> sha512(data)

----------------------------------------------------------------------------
\* Record model (zodbdump.py): Transaction, ObjectDelete, ObjectCopy,
\* ObjectData, HashOnly.  Every object record carries the same fields so that
\* records of different classes compare unequal instead of failing to compare.

ObjectDelete(oid) ==
  [kind |-> "delete", oid |-> oid, copy_from |-> 0, hashonly |-> FALSE,
   size |-> 0, data |-> <<>>, hashfunc |-> <<>>, hash_ |-> <<>>]

ObjectCopy(oid, copy_from) ==
  [kind |-> "copy", oid |-> oid, copy_from |-> copy_from, hashonly |-> FALSE,
   size |-> 0, data |-> <<>>, hashfunc |-> <<>>, hash_ |-> <<>>]

\* ObjectData with concrete payload
ObjectData(oid, data, hashfunc, hash_) ==
  [kind |-> "data", oid |-> oid, copy_from |-> 0, hashonly |-> FALSE,
   size |-> 0, data |-> data, hashfunc |-> hashfunc, hash_ |-> hash_]

\* ObjectData whose .data is HashOnly(size)
ObjectDataHashOnly(oid, size, hashfunc, hash_) ==
  [kind |-> "data", oid |-> oid, copy_from |-> 0, hashonly |-> TRUE,
   size |-> size, data |-> <<>>, hashfunc |-> hashfunc, hash_ |-> hash_]

Transaction(tid, status, user, description, extension, objv) ==
  [tid |-> tid, status |-> status, user |-> user, description |-> description,
   extension_bytes |-> extension, objv |-> objv]

\* the value of readtxn's result when it is no Transaction
NoTxn == Transaction(0, 0, <<>>, <<>>, <<>>, <<>>)

\* literals of the format
B_txn         == <<116, 120, 110, SP>>
B_user        == <<117, 115, 101, 114>>
B_description == <<100, 101, 115, 99, 114, 105, 112, 116, 105, 111, 110>>
B_extension   == <<101, 120, 116, 101, 110, 115, 105, 111, 110>>
B_obj         == <<111, 98, 106, SP>>
B_delete      == <<100, 101, 108, 101, 116, 101>>
B_from        == <<102, 114, 111, 109, SP>>

\* ObjectDelete.zdump / ObjectCopy.zdump / ObjectData.zdump
obj_zdump(obj) ==
  CASE obj.kind = "delete" ->
         B_obj \o ashex(p64(obj.oid)) \o <<SP>> \o B_delete \o <<LF>>
    [] obj.kind = "copy" ->
         B_obj \o ashex(p64(obj.oid)) \o <<SP>> \o B_from \o ashex(p64(obj.copy_from)) \o <<LF>>
    [] obj.kind = "data" ->
         LET size == IF obj.hashonly THEN obj.size ELSE Len(obj.data)
             z    == B_obj \o ashex(p64(obj.oid)) \o <<SP>> \o fmt_d(size) \o <<SP>>
                       \o obj.hashfunc \o <<58>> \o ashex(obj.hash_)
         IN  IF obj.hashonly THEN z \o <<SP, 45>> \o <<LF>>
             ELSE z \o <<LF>> \o obj.data \o <<LF>>

RECURSIVE objv_zdump(_)
objv_zdump(objv) == IF objv = <<>> THEN <<>> ELSE obj_zdump(Head(objv)) \o objv_zdump(Tail(objv))

\* Transaction.zdump
zdump(txn) ==
  B_txn \o ashex(p64(txn.tid)) \o <<SP>> \o qq(<<txn.status>>) \o <<LF>>
    \o B_user \o <<SP>> \o qq(txn.user) \o <<LF>>
    \o B_description \o <<SP>> \o qq(txn.description) \o <<LF>>
    \o B_extension \o <<SP>> \o qq(txn.extension_bytes) \o <<LF>>
    \o objv_zdump(txn.objv)
    \o <<LF>>

RECURSIVE zdumpv(_)
\* b''.join(t.zdump() for t in txnv)
zdumpv(txnv) == IF txnv = <<>> THEN <<>> ELSE zdump(Head(txnv)) \o zdumpv(Tail(txnv))

----------------------------------------------------------------------------
\* DumpReader (zodbdump.py).

\* outcome of one readtxn call
RTxn(txn) ==
  [kind |-> "txn", txn |-> txn, exc |-> "", what |-> "", lineno |-> 0,
   line |-> None, computed |-> <<>>, expected |-> <<>>]
REof ==
  [kind |-> "eof", txn |-> NoTxn, exc |-> "", what |-> "", lineno |-> 0,
   line |-> None, computed |-> <<>>, expected |-> <<>>]
\* an exception: exc is its class, what/lineno/line/computed/expected the parts of its message
RErr(exc, what, lineno, line, computed, expected) ==
  [kind |-> "error", txn |-> NoTxn, exc |-> exc, what |-> what, lineno |-> lineno,
   line |-> line, computed |-> computed, expected |-> expected]
\* the call never returns
RHang ==
  [kind |-> "hang", txn |-> NoTxn, exc |-> "", what |-> "", lineno |-> 0,
   line |-> None, computed |-> <<>>, expected |-> <<>>]

\* DumpReader.__init__
DumpReader == [pos |-> 0, lineno |-> 0, line |-> None]

\* index of the first LF of buf at or after i; Len(buf)+1 when there is none
FindLF(buf, i) == SetMin({k \in i..Len(buf) : buf[k] = LF} \cup {Len(buf) + 1})

\* a _readline that gives an empty line at the end of the stream
_readline_empty_at_end(buf, r) ==
  LET e == FindLF(buf, r.pos + 1)
      l == IF r.pos >= Len(buf) THEN <<>> ELSE SubSeq(buf, r.pos + 1, e - 1)
  IN  [eof |-> FALSE, l |-> l,
       r |-> [pos |-> Min(e, Len(buf)), lineno |-> r.lineno + 1, line |-> Some(l)]]

\* DumpReader._readline: [eof |-> TRUE at end of stream (the code's None),
\*   l |-> the line without its LF, r |-> the reader after the call]
_readline(buf, r) ==
  IF r.pos >= Len(buf) THEN [eof |-> TRUE, l |-> <<>>, r |-> [r EXCEPT !.line = None]]
  ELSE LET e == FindLF(buf, r.pos + 1)
           l == SubSeq(buf, r.pos + 1, e - 1)
       IN  [eof |-> FALSE, l |-> l,
            r |-> [pos |-> Min(e, Len(buf)), lineno |-> r.lineno + 1, line |-> Some(l)]]

\* a _badline that does not quote the line
_badline_without_line(r, msg) == RErr("RuntimeError", msg, r.lineno, None, <<>>, <<>>)

\* DumpReader._badline
_badline(r, msg) == RErr("RuntimeError", msg, r.lineno, r.line, <<>>, <<>>)

\* the byte c is of the class cls of the patterns
InClass(c, cls) ==
  CASE cls = "lowerhex" -> IsLowerHex(c)
    [] cls = "digit"    -> IsDigit(c)
    [] cls = "word"     -> IsWord(c)

\* every byte of l[i..j] is of the class cls
AllOf(l, i, j, cls) == \A k \in i..j : InClass(l[k], cls)

\* index just past the longest run of bytes of the class cls that starts at l[i]
RunEnd(l, i, cls) ==
  SetMin({k \in i..Len(l) : ~InClass(l[k], cls)} \cup {Max(i, Len(l) + 1)})

\* _txn_re.match(l):  ^txn (?P<tid>[0-9a-f]{16}) "(?P<status>.)"$
\* `.` is any byte but LF, and `$` matches at the end of l and just before an LF
\* that ends l.
_txn_re(l) ==
  IF /\ \/ Len(l) = 24
        \/ Len(l) = 25 /\ l[25] = LF
     /\ SubSeq(l, 1, 4) = B_txn
     /\ AllOf(l, 5, 20, "lowerhex")
     /\ l[21] = SP /\ l[22] = DQUOTE /\ l[23] # LF /\ l[24] = DQUOTE
  THEN [m |-> TRUE, tid |-> SubSeq(l, 5, 20), status |-> l[23]]
  ELSE [m |-> FALSE, tid |-> <<>>, status |-> 0]

NoMatch ==
  [m |-> FALSE, oid |-> <<>>, delete |-> FALSE, from |-> <<>>,
   size |-> <<>>, hashfunc |-> <<>>, hash |-> <<>>, hashonly |-> FALSE]

\* _obj_re.match(l):
\*   ^obj (?P<oid>[0-9a-f]{16}) ((?P<delete>delete)|from (?P<from>[0-9a-f]{16})|
\*       (?P<size>[0-9]+) (?P<hashfunc>\w+):(?P<hash>[0-9a-f]+)(?P<hashonly> -)?)
\* The pattern is anchored at the start only.
_obj_re(l) ==
  IF ~(/\ Len(l) >= 21
       /\ SubSeq(l, 1, 4) = B_obj
       /\ AllOf(l, 5, 20, "lowerhex")
       /\ l[21] = SP)
  THEN NoMatch
  ELSE
    LET oid  == SubSeq(l, 5, 20)
        rest == DropFirst(l, 21)
        se   == RunEnd(l, 22, "digit")       \* size is l[22..se-1]
        he   == RunEnd(l, se + 1, "word")    \* hashfunc is l[se+1..he-1]
        xe   == RunEnd(l, he + 1, "lowerhex")  \* hash is l[he+1..xe-1]
    IN  IF startswith(rest, B_delete)
        THEN [NoMatch EXCEPT !.m = TRUE, !.oid = oid, !.delete = TRUE]
        ELSE IF startswith(rest, B_from) /\ Len(rest) >= 21 /\ AllOf(rest, 6, 21, "lowerhex")
        THEN [NoMatch EXCEPT !.m = TRUE, !.oid = oid, !.from = SubSeq(rest, 6, 21)]
        ELSE IF /\ se > 22
                /\ se <= Len(l) /\ l[se] = SP
                /\ he > se + 1
                /\ he <= Len(l) /\ l[he] = 58
                /\ xe > he + 1
        THEN [NoMatch EXCEPT !.m = TRUE, !.oid = oid,
                             !.size = SubSeq(l, 22, se - 1),
                             !.hashfunc = SubSeq(l, se + 1, he - 1),
                             !.hash = SubSeq(l, he + 1, xe - 1),
                             !.hashonly = (xe + 1 <= Len(l) /\ l[xe] = SP /\ l[xe + 1] = 45)]
        ELSE NoMatch

\* get(name) of readtxn: [ok, val, r, err]; nomsg is the text 'no <name>'
get(buf, r, name, nomsg) ==
  LET \* u is what unquote gave for the rest of the line rl
      value(rl, u) ==
        IF u.ok THEN [ok |-> TRUE, val |-> u.val, r |-> rl.r, err |-> REof]
        ELSE [ok |-> FALSE, val |-> <<>>, r |-> rl.r,
              err |-> RErr("ValueError", "unquote", 0, None, <<>>, <<>>)]
      line(rl) ==
        IF rl.eof \/ ~startswith(rl.l, name \o <<SP>>)
        THEN [ok |-> FALSE, val |-> <<>>, r |-> rl.r, err |-> _badline(rl.r, nomsg)]
        ELSE value(rl, unquote(DropFirst(rl.l, Len(name) + 1)))
  IN  line(_readline(buf, r))
\* a reader that takes every declared hash for good
hash_unverified(hash_, hashok) == TRUE

\* `if hash_ != hashok: raise ...`: the digest computed over the data read is the
\* declared one
hash_verified(hash_, hashok) == hash_ = hashok

RECURSIVE ReadObjs(_, _, _, _)
\* the object loop of readtxn, run by a Python 3 (py3) or a Python 2 interpreter:
\* [res |-> RErr/RHang, or RTxn carrying objv, r |-> reader]
ReadObjs(buf, r, objv, py3) ==
  LET \* the line l was read, leaving the reader at r1; m is _obj_re.match(l)
      entry(eof, r1, l, m) ==
        IF ~eof /\ l = <<>> THEN [res |-> RTxn([NoTxn EXCEPT !.objv = objv]), r |-> r1]
        ELSE IF eof \/ ~startswith(l, B_obj) THEN [res |-> _badline(r1, "no obj"), r |-> r1]
        ELSE IF ~m.m THEN [res |-> _badline(r1, "invalid obj entry"), r |-> r1]
        ELSE IF m.delete
          THEN ReadObjs(buf, r1, Append(objv, ObjectDelete(u64(fromhex(m.oid)))), py3)
        ELSE IF m.from # <<>>
          THEN ReadObjs(buf, r1, Append(objv, ObjectCopy(u64(fromhex(m.oid)),
                                                         u64(fromhex(m.from)))), py3)
        ELSE
          LET oid      == u64(fromhex(m.oid))
              size     == int(m.size)
              hashfunc == m.hashfunc
              hashok   == fromhex(m.hash)
              n        == size + 1
              chunk    == SubSeq(buf, r1.pos + 1, r1.pos + n)
              r2       == [pos |-> r1.pos + n, lineno |-> r1.lineno + count(chunk, LF),
                           line |-> None]
              data     == SubSeq(chunk, 1, n - 1)
              \* hash_ is the digest computed over data
              verify(hash_) ==
                IF ~hash_verified(hash_, hashok)
                  THEN [res |-> RErr("RuntimeError", "data corrupt", r2.lineno, None,
                                     ashex(hash_), ashex(hashok)),
                        r |-> r2]
                ELSE ReadObjs(buf, r2, Append(objv, ObjectData(oid, data, hashfunc, hashok)),
                              py3)
          IN
          \* codecs.decode(s, 'hex') of an odd number of digits raises binascii.Error
          \* on Python 3 and TypeError on Python 2
          IF Len(m.hash) % 2 # 0
            THEN [res |-> RErr(IF py3 THEN "binascii.Error" ELSE "TypeError",
                               "odd-length hash", 0, None, <<>>, <<>>),
                  r |-> r1]
          ELSE IF hashfunc \notin hashRegistry
            THEN [res |-> _badline(r1, "unknown hash function"), r |-> r1]
          ELSE IF m.hashonly
            THEN ReadObjs(buf, r1,
                          Append(objv, ObjectDataHashOnly(oid, size, hashfunc, hashok)), py3)
          ELSE IF Len(buf) - r1.pos < n
            \* read() returns b'' at end of stream and n stays > 0: the loop never ends
            THEN [res |-> RHang, r |-> [r1 EXCEPT !.pos = Len(buf)]]
          ELSE IF chunk[n] # LF
            THEN [res |-> RErr("RuntimeError", "no LF after obj data", r2.lineno, None,
                               <<>>, <<>>),
                  r |-> r2]
          ELSE verify(Digest(hashfunc, data))
      line(rl) == entry(rl.eof, rl.r, rl.l, _obj_re(rl.l))
  IN  line(_readline(buf, r))

\* DumpReader.readtxn, run by a Python 3 (py3) or a Python 2 interpreter:
\* [res |-> outcome, r |-> the reader after the call]
readtxn(buf, r, py3) ==
  LET \* m is _txn_re.match of the first line, gu, gd, ge what get() gave for the
      \* three header lines, ro what the object loop gave
      objs(m, gu, gd, ge, ro) ==
        IF ro.res.kind # "txn" THEN ro
        ELSE [res |-> RTxn(Transaction(u64(fromhex(m.tid)), m.status, gu.val, gd.val,
                                       ge.val, ro.res.txn.objv)),
              r |-> ro.r]
      extension(m, gu, gd, ge) ==
        IF ~ge.ok THEN [res |-> ge.err, r |-> ge.r]
        ELSE objs(m, gu, gd, ge, ReadObjs(buf, ge.r, <<>>, py3))
      description(m, gu, gd) ==
        IF ~gd.ok THEN [res |-> gd.err, r |-> gd.r]
        ELSE extension(m, gu, gd, get(buf, gd.r, B_extension, "no extension"))
      user(m, gu) ==
        IF ~gu.ok THEN [res |-> gu.err, r |-> gu.r]
        ELSE description(m, gu, get(buf, gu.r, B_description, "no description"))
      start(rl, m) ==
        IF rl.eof THEN [res |-> REof, r |-> rl.r]
        ELSE IF ~m.m THEN [res |-> _badline(rl.r, "no txn start"), r |-> rl.r]
        ELSE user(m, get(buf, rl.r, B_user, "no user"))
      line(rl) == start(rl, _txn_re(rl.l))
  IN  line(_readline(buf, r))
----------------------------------------------------------------------------
\* The storage consumed by the tools: an external ZODB storage, modelled by
\* the interface the tools call (iterator, loadBefore, lastTransaction,
\* tpc_begin/store/restore/deleteObject/tpc_vote/tpc_finish/tpc_abort).
\*
\* A storage is [restoreable, exact_tid, txns]:
\*   restoreable - IStorageRestoreable.providedBy(stor)
\*   exact_tid   - tpc_begin(tid=...) is honoured
\*   txns        - the committed transactions, in commit order; each is
\*                 [tid, status, user, description, extension_bytes, recs] and each
\*                 record [oid, data, data_txn]: data = None for a deletion,
\*                 data_txn # 0 when the data is a copy of oid's data in that transaction.

Storage(restoreable, exact_tid) ==
  [restoreable |-> restoreable, exact_tid |-> exact_tid, txns |-> <<>>]

DataRec(oid, data, data_txn) == [oid |-> oid, data |-> data, data_txn |-> data_txn]

\* stor.lastTransaction()
lastTransaction(s) == IF s.txns = <<>> THEN z64 ELSE s.txns[Len(s.txns)].tid

\* the tid a storage gives to a transaction begun without one
newTid(s) == lastTransaction(s) + 1

\* positions <<i, j>> of the records of oid, i the transaction and j the record in it
RecsOf(s, oid) ==
  {p \in (1..Len(s.txns)) \X (1..MaxObjs) :
     p[2] <= Len(s.txns[p[1]].recs) /\ s.txns[p[1]].recs[p[2]].oid = oid}

\* the latest of the positions P (the one committed last)
LatestPos(P) == CHOOSE p \in P : \A q \in P : q[1] < p[1] \/ (q[1] = p[1] /\ q[2] <= p[2])

\* stor.loadBefore(oid, before):
\*   [kind |-> "data", data, serial]  the revision current just before `before`
\*   [kind |-> "none"]                oid has revisions, none of them before `before`
\*   [kind |-> "poskey"]              POSKeyError: oid is unknown, or deleted as of then
loadBefore(s, oid, before) ==
  LET all  == RecsOf(s, oid)
      bef  == {p \in all : s.txns[p[1]].tid < before}
      p    == LatestPos(bef)
      rec  == s.txns[p[1]].recs[p[2]]
  IN  IF all = {} THEN [kind |-> "poskey", data |-> <<>>, serial |-> z64]
      ELSE IF bef = {} THEN [kind |-> "none", data |-> <<>>, serial |-> z64]
      ELSE IF ~rec.data.some THEN [kind |-> "poskey", data |-> <<>>, serial |-> z64]
      ELSE [kind |-> "data", data |-> rec.data.v, serial |-> s.txns[p[1]].tid]

\* tid of the revision of oid committed last; z64 when there is none
committed_tid(s, oid) ==
  IF RecsOf(s, oid) = {} THEN z64 ELSE s.txns[LatestPos(RecsOf(s, oid))[1]].tid

\* one storage call as it stands in the log of calls
Call(op, oid, serial, data, tid, status, raised) ==
  [op |-> op, oid |-> oid, serial |-> serial, data |-> data, tid |-> tid,
   status |-> status, raised |-> raised]

NoErr == [name |-> "", oid |-> 0]
Err(name, oid) == [name |-> name, oid |-> oid]

\* stor.store(oid, serial, data, '', txn): the error it raises, NoErr when none
store_check(s, oid, serial) ==
  IF RecsOf(s, oid) # {} /\ committed_tid(s, oid) # serial
  THEN Err("ConflictError", oid) ELSE NoErr

\* stor.deleteObject(oid, serial, txn): the error it raises, NoErr when none
delete_check(s, oid, serial) ==
  IF RecsOf(s, oid) = {} THEN Err("POSKeyError", oid)
  ELSE IF committed_tid(s, oid) # serial THEN Err("ConflictError", oid)
  ELSE NoErr

\* stor.restore(oid, tid, data, '', prev_txn, txn): the record it writes.
\* The copy is kept as a reference to prev_txn when that transaction holds oid
\* with the same data; otherwise the data is written in full.
restore_rec(s, oid, data, prev_txn) ==
  LET hit == {p \in RecsOf(s, oid) :
                /\ s.txns[p[1]].tid = prev_txn
                /\ s.txns[p[1]].recs[p[2]].data = Some(data)}
  IN  DataRec(oid, Some(data), IF prev_txn # 0 /\ hit # {} THEN prev_txn ELSE 0)

\* stor.tpc_finish: the transaction joins the committed ones
tpc_finish(s, tid, status, txn, recs) ==
  [s EXCEPT !.txns = Append(@, [tid |-> tid, status |-> status, user |-> txn.user,
                                description |-> txn.description,
                                extension_bytes |-> txn.extension_bytes,
                                recs |-> recs])]

\* stor.iterator(start, stop): the committed transactions with start <= tid <= stop,
\* in commit order; stop < 0 stands for None
iterator(s, start, stop) ==
  SelectSeq(s.txns, LAMBDA t : t.tid >= start /\ (stop < 0 \/ t.tid <= stop))

----------------------------------------------------------------------------
\* zodbcommit (zodbcommit.py).

\* _serial_at(stor, oid, at): oid's serial as of @at
_serial_at(s, oid, a) ==
  LET xdata == loadBefore(s, oid, a + 1)
  IN  IF xdata.kind = "data" THEN xdata.serial ELSE z64

\* outcome of zodbcommit: the tid returned, or the exception raised
COk(tid) == [kind |-> "ok", tid |-> tid, exc |-> NoErr]
CRaise(exc) == [kind |-> "raise", tid |-> 0, exc |-> exc]

\* The environment's part in one zodbcommit call: the step at which the storage
\* fails for a reason of its own (I/O, network, a vote that is refused).
\*   0 - nowhere;  k in 1..Len(objv) - at the store/restore/deleteObject call of
\*   objv[k];  Len(objv)+1 - at tpc_vote
FaultAt(fault, k) == IF fault = k THEN Err("StorageError", 0) ELSE NoErr

FirstErr(e1, e2) == IF e1 # NoErr THEN e1 ELSE e2

\* obj_data that lets a hash-only record through, its data taken as empty
obj_data_hashonly_passed(s, obj) ==
  [exc |-> IF obj.kind = "copy" /\ loadBefore(s, obj.oid, obj.copy_from + 1).kind # "data"
           THEN Err("ValueError: copy from: no data", obj.oid) ELSE NoErr,
   calls |-> IF obj.kind = "copy"
             THEN <<Call("loadBefore", obj.oid, 0, <<>>, obj.copy_from + 1, 0, NoErr)>>
             ELSE <<>>,
   del |-> obj.kind = "delete",
   data |-> IF obj.kind = "copy" THEN loadBefore(s, obj.oid, obj.copy_from + 1).data
            ELSE obj.data,
   copy_from |-> IF obj.kind = "copy" THEN obj.copy_from ELSE 0]

\* obj_data that commits a copy with the data left unset, as for a deletion
obj_data_copy_unset(s, obj) ==
  IF obj.kind = "copy" /\ loadBefore(s, obj.oid, obj.copy_from + 1).kind = "data"
  THEN [exc |-> NoErr,
        calls |-> <<Call("loadBefore", obj.oid, 0, <<>>, obj.copy_from + 1, 0, NoErr)>>,
        del |-> TRUE, data |-> <<>>, copy_from |-> obj.copy_from]
  ELSE [exc |-> IF obj.kind = "copy" THEN Err("ValueError: copy from: no data", obj.oid)
                ELSE IF obj.kind = "data" /\ obj.hashonly
                  THEN Err("ValueError: cannot commit transaction with hashonly object", obj.oid)
                ELSE NoErr,
        calls |-> IF obj.kind = "copy"
                  THEN <<Call("loadBefore", obj.oid, 0, <<>>, obj.copy_from + 1, 0, NoErr)>>
                  ELSE <<>>,
        del |-> obj.kind = "delete", data |-> obj.data, copy_from |-> 0]

\* obj_data that copies the data oid has now, whatever copy_from says
obj_data_copy_current(s, obj) ==
  LET xdata == loadBefore(s, obj.oid, IF obj.kind = "copy" THEN newTid(s) ELSE 0)
      cload == Call("loadBefore", obj.oid, 0, <<>>, obj.copy_from + 1, 0, NoErr)
  IN
  [exc |-> IF obj.kind = "copy" /\ xdata.kind # "data"
             THEN Err("ValueError: copy from: no data", obj.oid)
           ELSE IF obj.kind = "data" /\ obj.hashonly
             THEN Err("ValueError: cannot commit transaction with hashonly object", obj.oid)
           ELSE NoErr,
   calls |-> IF obj.kind = "copy" THEN <<cload>> ELSE <<>>,
   del |-> obj.kind = "delete",
   data |-> IF obj.kind = "copy" THEN xdata.data
            ELSE IF obj.kind = "data" THEN obj.data ELSE <<>>,
   copy_from |-> IF obj.kind = "copy" /\ xdata.kind = "data" THEN obj.copy_from ELSE 0]

\* The data to be committed for obj (the first half of the loop body):
\*   [exc, calls, del |-> the data is None, data, copy_from]
obj_data(s, obj) ==
  LET xdata == loadBefore(s, obj.oid, obj.copy_from + 1)
      cload == Call("loadBefore", obj.oid, 0, <<>>, obj.copy_from + 1, 0, NoErr)
      out(exc, cs, del, data, copy_from) ==
        [exc |-> exc, calls |-> cs, del |-> del, data |-> data, copy_from |-> copy_from]
  IN
  IF obj.kind = "copy"
    THEN IF xdata.kind # "data"
           THEN out(Err("ValueError: copy from: no data", obj.oid), <<cload>>, FALSE, <<>>, 0)
           ELSE out(NoErr, <<cload>>, FALSE, xdata.data, obj.copy_from)
  ELSE IF obj.kind = "delete"
    THEN out(NoErr, <<>>, TRUE, <<>>, 0)
  ELSE IF obj.hashonly
    THEN out(Err("ValueError: cannot commit transaction with hashonly object", obj.oid),
             <<>>, FALSE, <<>>, 0)
  ELSE out(NoErr, <<>>, FALSE, obj.data, 0)

\* The object is deleted, restored or stored (the second half of the loop body):
\*   [exc, calls, recs |-> the records written into the transaction being prepared];
\* efault is the error of the storage's own, NoErr when it has none
obj_write(s, a, txn, oid, d, efault) ==
  LET want_restore == txn.tid # z64
      have_restore == s.restoreable
      cserial      == Call("loadBefore", oid, 0, <<>>, a + 1, 0, NoErr)
      \* serial is _serial_at(stor, oid, at)
      write(serial) ==
        LET edel == FirstErr(delete_check(s, oid, serial), efault)
            esto == FirstErr(store_check(s, oid, serial), efault)
        IN
        IF d.del
          THEN [exc   |-> edel,
                calls |-> <<cserial, Call("deleteObject", oid, serial, <<>>, 0, 0, edel)>>,
                recs  |-> IF edel = NoErr THEN <<DataRec(oid, None, 0)>> ELSE <<>>]
        ELSE IF want_restore /\ have_restore
          THEN [exc   |-> efault,
                calls |-> <<Call("restore", oid, txn.tid, d.data, d.copy_from, 0, efault)>>,
                recs  |-> IF efault = NoErr
                            THEN <<restore_rec(s, oid, d.data, d.copy_from)>> ELSE <<>>]
        ELSE   [exc   |-> esto,
                calls |-> <<cserial, Call("store", oid, serial, d.data, 0, 0, esto)>>,
                recs  |-> IF esto = NoErr THEN <<DataRec(oid, Some(d.data), 0)>> ELSE <<>>]
  IN  write(_serial_at(s, oid, a))

\* a loop body that takes the records from the last to the first
commit_obj_last_first(s, a, txn, i, fault) ==
  LET written(d, w) == [exc |-> w.exc, calls |-> d.calls \o w.calls, recs |-> w.recs]
      loaded(obj, d) ==
        IF d.exc # NoErr THEN [exc |-> d.exc, calls |-> d.calls, recs |-> <<>>]
        ELSE written(d, obj_write(s, a, txn, obj.oid, d, FaultAt(fault, i)))
  IN  loaded(txn.objv[Len(txn.objv) + 1 - i], obj_data(s, txn.objv[Len(txn.objv) + 1 - i]))

\* The body of the loop `for obj in txn.objv` for objv[i]
commit_obj(s, a, txn, i, fault) ==
  LET \* d is obj_data(obj), w what the write of d did
      written(d, w) == [exc |-> w.exc, calls |-> d.calls \o w.calls, recs |-> w.recs]
      loaded(obj, d) ==
        IF d.exc # NoErr THEN [exc |-> d.exc, calls |-> d.calls, recs |-> <<>>]
        ELSE written(d, obj_write(s, a, txn, obj.oid, d, FaultAt(fault, i)))
  IN  loaded(txn.objv[i], obj_data(s, txn.objv[i]))

RECURSIVE commit_objs(_, _, _, _, _)
\* a loop that goes on to the next records after an exception and raises it at the end
commit_objs_goes_on(s, a, txn, i, fault) ==
  IF i > Len(txn.objv) THEN [exc |-> NoErr, calls |-> <<>>, recs |-> <<>>]
  ELSE LET both(one, rest) ==
             [exc |-> FirstErr(one.exc, rest.exc), calls |-> one.calls \o rest.calls,
              recs |-> one.recs \o rest.recs]
       IN  both(commit_obj(s, a, txn, i, fault), commit_objs(s, a, txn, i + 1, fault))

\* the function _() of zodbcommit from objv[i] on: the loop stops at the first exception
commit_objs(s, a, txn, i, fault) ==
  IF i > Len(txn.objv) THEN [exc |-> NoErr, calls |-> <<>>, recs |-> <<>>]
  ELSE LET \* one is what the loop body did for objv[i], rest what the loop did after it
           both(one, rest) ==
             [exc |-> rest.exc, calls |-> one.calls \o rest.calls,
              recs |-> one.recs \o rest.recs]
           first(one) ==
             IF one.exc # NoErr THEN one
             ELSE both(one, commit_objs(s, a, txn, i + 1, fault))
       IN  first(commit_obj(s, a, txn, i, fault))

\* an exception that goes on to the caller with the transaction left open
raise_without_abort(s, issued, exc) == [stor |-> s, calls |-> issued, res |-> CRaise(exc)]

\* `except: stor.tpc_abort(txn); raise`: the transaction is aborted and the
\* exception goes on to the caller; issued are the storage calls made so far
abort_and_raise(s, issued, exc) ==
  [stor |-> s, calls |-> Append(issued, Call("tpc_abort", 0, 0, <<>>, 0, 0, NoErr)),
   res |-> CRaise(exc)]

\* a result that is whatever tid tpc_finish gave
finish_result_unchecked(txn, tid) == COk(tid)

\* what zodbcommit returns after tpc_finish gave tid
finish_result(txn, tid) ==
  IF txn.tid # z64 /\ tid # txn.tid
  THEN CRaise(Err("panic: restored transaction has different tid", 0))
  ELSE COk(tid)

\* the first storage call of zodbcommit
begin_call(txn) ==
  IF txn.tid # z64
  THEN Call("tpc_begin", 0, 0, <<>>, txn.tid, txn.status, NoErr)
  ELSE Call("tpc_begin", 0, 0, <<>>, 0, 0, NoErr)

\* zodbcommit(stor, at, txn): [stor |-> the storage after the call,
\*   calls |-> the storage calls issued, in order, res |-> COk(tid) or CRaise(exc)]
zodbcommit(s, a, txn, fault) ==
  LET want_restore == txn.tid # z64
      \* the tid and status the storage begins the transaction with
      tid     == IF want_restore /\ s.exact_tid THEN txn.tid ELSE newTid(s)
      status  == IF want_restore THEN txn.status ELSE SP
      evote   == FaultAt(fault, Len(txn.objv) + 1)
      vote    == Call("tpc_vote", 0, 0, <<>>, 0, 0, evote)
      finish  == Call("tpc_finish", 0, 0, <<>>, tid, 0, NoErr)
      \* body is what the loop over txn.objv did
      voted(body) ==
        IF body.exc # NoErr
          THEN abort_and_raise(s, <<begin_call(txn)>> \o body.calls, body.exc)
        ELSE IF evote # NoErr
          THEN abort_and_raise(s, <<begin_call(txn)>> \o body.calls \o <<vote>>, evote)
        ELSE [stor  |-> tpc_finish(s, tid, status, txn, body.recs),
              calls |-> <<begin_call(txn)>> \o body.calls \o <<vote, finish>>,
              res   |-> finish_result(txn, tid)]
  IN  voted(commit_objs(s, a, txn, 1, fault))
----------------------------------------------------------------------------
\* zodbdump (zodbdump.py), txnobjv (util.py), zodbrestore (zodbrestore.py),
\* zodbsync (zodbsync.py).

\* position of the first record with the least oid
FirstMin(recs) ==
  SetMin({k \in 1..Len(recs) : \A j \in 1..Len(recs) : recs[k].oid <= recs[j].oid})

RECURSIVE SortByOid(_)
\* objv.sort(key = lambda obj: obj.oid): ascending oid, ties in their original order
SortByOid(recs) ==
  IF recs = <<>> THEN <<>>
  ELSE LET k == FirstMin(recs)
       IN  <<recs[k]>> \o SortByOid(SubSeq(recs, 1, k - 1) \o SubSeq(recs, k + 1, Len(recs)))

\* the records in the order the storage yields them
txnobjv_unsorted(t) == t.recs

\* txnobjv(txn): the records of a stored transaction, in canonical order
txnobjv(t) == SortByOid(t.recs)

\* a dump_obj that writes a record whose data was taken from an earlier transaction
\* as if the data were its own
dump_obj_copy_as_data(rec, hashonly) ==
  LET entry == B_obj \o ashex(p64(rec.oid)) \o <<SP>>
  IN  IF ~rec.data.some THEN entry \o B_delete \o <<LF>>
      ELSE entry \o fmt_d(Len(rec.data.v)) \o <<SP>> \o N_sha1 \o <<58>>
             \o ashex(sha1(rec.data.v))
             \o (IF hashonly THEN <<SP, 45>> ELSE <<LF>> \o rec.data.v) \o <<LF>>

\* what zodbdump writes for one record of a stored transaction
dump_obj(rec, hashonly) ==
  LET entry == B_obj \o ashex(p64(rec.oid)) \o <<SP>>
  IN  IF ~rec.data.some THEN entry \o B_delete \o <<LF>>
      ELSE IF rec.data_txn # 0 THEN entry \o B_from \o ashex(p64(rec.data_txn)) \o <<LF>>
      ELSE entry \o fmt_d(Len(rec.data.v)) \o <<SP>> \o N_sha1 \o <<58>>
             \o ashex(sha1(rec.data.v))
             \o (IF hashonly THEN <<SP, 45>> ELSE <<LF>> \o rec.data.v) \o <<LF>>

RECURSIVE dump_objv(_, _)
dump_objv(recs, hashonly) ==
  IF recs = <<>> THEN <<>>
  ELSE dump_obj(Head(recs), hashonly) \o dump_objv(Tail(recs), hashonly)

\* what zodbdump writes for one stored transaction
dump_txn(t, hashonly) ==
  B_txn \o ashex(p64(t.tid)) \o <<SP>> \o qq(<<t.status>>) \o <<LF>>
    \o B_user \o <<SP>> \o qq(t.user) \o <<LF>>
    \o B_description \o <<SP>> \o qq(t.description) \o <<LF>>
    \o B_extension \o <<SP>> \o qq(t.extension_bytes) \o <<LF>>
    \o dump_objv(txnobjv(t), hashonly)
    \o <<LF>>

RECURSIVE dump_txnv(_, _)
dump_txnv(txnv, hashonly) ==
  IF txnv = <<>> THEN <<>>
  ELSE dump_txn(Head(txnv), hashonly) \o dump_txnv(Tail(txnv), hashonly)

\* the arguments of a zodbdump call
DumpArgs(tidmin, tidmax, hashonly) ==
  [tidmin |-> tidmin, tidmax |-> tidmax, hashonly |-> hashonly]

\* a zodbdump that writes the whole storage, whatever the range
zodbdump_whole(s, tidmin, tidmax, hashonly) == dump_txnv(s.txns, hashonly)

\* zodbdump(stor, tidmin, tidmax, hashonly, pretty='raw'): the bytes written to out;
\* tidmax < 0 stands for None
zodbdump(s, tidmin, tidmax, hashonly) == dump_txnv(iterator(s, tidmin, tidmax), hashonly)

\* zodbrestore, one turn of its loop:
\*   [pc |-> "done" (readtxn returned None) | "raised" | "loop", zr |-> the reader,
\*    txn |-> the transaction read, com |-> what zodbcommit did, at |-> the new at]
restore_step(s, a, buf, r, fault, py3) ==
  LET nop == [stor |-> s, calls |-> <<>>, res |-> COk(0)]
      \* com is what zodbcommit did with the transaction read
      committed(rd, com) ==
        IF com.res.kind # "ok"
          THEN [pc |-> "raised", zr |-> rd.r, txn |-> rd.res.txn, com |-> com, at |-> a]
        ELSE [pc |-> "loop", zr |-> rd.r, txn |-> rd.res.txn, com |-> com,
              at |-> rd.res.txn.tid]
      \* rd is what readtxn gave
      read(rd) ==
        IF rd.res.kind = "eof"
          THEN [pc |-> "done", zr |-> rd.r, txn |-> NoTxn, com |-> nop, at |-> a]
        ELSE IF rd.res.kind # "txn"
          THEN [pc |-> IF rd.res.kind = "hang" THEN "hang" ELSE "raised",
                zr |-> rd.r, txn |-> NoTxn, com |-> nop, at |-> a]
        ELSE committed(rd, zodbcommit(s, a, rd.res.txn, fault))
  IN  read(readtxn(buf, r, py3))

\* zodbsync: the record built for one object of a primary transaction.
\* A record without data must name no data transaction (`assert not obj.data_txn`).
\* ObjectCopy.__init__ takes (oid, copy_from) only, so ObjectCopy(oid, data_txn, data=...)
\* raises TypeError.
sync_obj(rec) ==
  IF ~rec.data.some
    THEN IF rec.data_txn # 0
           THEN [exc |-> Err("AssertionError", rec.oid), obj |-> ObjectDelete(rec.oid)]
         ELSE [exc |-> NoErr, obj |-> ObjectDelete(rec.oid)]
  ELSE IF rec.data_txn # 0
    THEN [exc |-> Err("TypeError", rec.oid), obj |-> ObjectCopy(rec.oid, rec.data_txn)]
  ELSE [exc |-> NoErr, obj |-> ObjectData(rec.oid, rec.data.v, N_null, <<>>)]

\* zodbsync: the Transaction built from the primary transaction t, its objects in
\* the order the storage yields them
sync_txn(t) ==
  LET xs   == [k \in 1..Len(t.recs) |-> sync_obj(t.recs[k])]
      bad  == {k \in 1..Len(xs) : xs[k].exc # NoErr}
  IN  [exc |-> IF bad = {} THEN NoErr ELSE xs[SetMin(bad)].exc,
       txn |-> Transaction(t.tid, t.status, t.user, t.description, t.extension_bytes,
                           [k \in 1..Len(xs) |-> xs[k].obj])]

\* a loop that skips no transaction: the one at the secondary's head is taken again
sync_step_skips_nothing(s, a, t, fault) ==
  LET committed(x, com) ==
        IF com.res.kind # "ok"
          THEN [pc |-> "raised", com |-> com, txn |-> x.txn, at |-> a]
        ELSE [pc |-> "loop", com |-> com, txn |-> x.txn, at |-> x.txn.tid]
      built(x) ==
        IF x.exc # NoErr
          THEN [pc |-> "raised",
                com |-> [stor |-> s, calls |-> <<>>, res |-> CRaise(x.exc)],
                txn |-> x.txn, at |-> a]
        ELSE committed(x, zodbcommit(s, a, x.txn, fault))
  IN  built(sync_txn(t))

\* zodbsync, one turn of its loop over the primary transaction t
sync_step(s, a, t, fault) ==
  LET nop == [stor |-> s, calls |-> <<>>, res |-> COk(0)]
      \* com is what zodbcommit did with the transaction built
      committed(x, com) ==
        IF com.res.kind # "ok"
          THEN [pc |-> "raised", com |-> com, txn |-> x.txn, at |-> a]
        ELSE [pc |-> "loop", com |-> com, txn |-> x.txn, at |-> x.txn.tid]
      \* x is the transaction built from t
      built(x) ==
        IF t.tid <= a /\ a # z64
          THEN [pc |-> "skip", com |-> nop, txn |-> NoTxn, at |-> a]
        ELSE IF x.exc # NoErr
          THEN [pc |-> "raised", com |-> [nop EXCEPT !.res = CRaise(x.exc)],
                txn |-> x.txn, at |-> a]
        ELSE committed(x, zodbcommit(s, a, x.txn, fault))
  IN  built(sync_txn(t))
----------------------------------------------------------------------------
\* Inputs.

\* object identifiers in use
OidDomain == {1, 2}

RECURSIVE BytesUpTo(_, _)
\* byte strings over alphabet A no longer than n
BytesUpTo(A, n) ==
  IF n = 0 THEN {<<>>}
  ELSE LET S == BytesUpTo(A, n - 1) IN S \cup {Append(s, b) : s \in S, b \in A}

\* object payloads: they hold LF, and so blank lines, as well as ordinary bytes
Payloads == BytesUpTo({LF, 120}, MaxDataLen)

\* transaction metadata: [status, user, description, extension_bytes]; the second
\* has bytes that the writer must escape
Plain == [status |-> SP, user |-> <<>>, description |-> <<>>, extension_bytes |-> <<>>]
Escaped == [status |-> 112, user |-> <<97, DQUOTE>>, description |-> <<LF>>,
            extension_bytes |-> <<BACKSLASH, 0>>]
Headers == {Plain, Escaped}

\* sequences of at most n elements of S
SeqsUpTo(S, n) == UNION {[1..k -> S] : k \in 0..n}

\* sequences of records no two of which are for the same oid
DistinctOids(objv) == \A i, j \in 1..Len(objv) : i # j => objv[i].oid # objv[j].oid

\* The records handed to zodbcommit: a deletion, a copy, data, hash-only data.
CommitObjs ==
  {ObjectDelete(o) : o \in OidDomain}
    \cup {ObjectCopy(o, 2) : o \in OidDomain}
    \cup {ObjectData(o, <<120>>, N_sha1, sha1(<<120>>)) : o \in OidDomain}
    \cup {ObjectDataHashOnly(o, 1, N_sha1, sha1(<<120>>)) : o \in OidDomain}
CommitObjvs == {objv \in SeqsUpTo(CommitObjs, MaxObjs) : DistinctOids(objv)}

\* transactions handed to zodbcommit on storage s: regular (tid 0), and with the exact
\* tid next to the head of s, or one further, and a status other than the default
CommitTxns(s) ==
  {Transaction(0, h.status, h.user, h.description, h.extension_bytes, objv) :
     h \in Headers, objv \in CommitObjvs}
    \cup {Transaction(tid, Escaped.status, Escaped.user, Escaped.description,
                      Escaped.extension_bytes, objv) :
            tid \in {newTid(s), newTid(s) + 1}, objv \in CommitObjvs}

\* the states `at` a caller may hold: the empty state and every committed transaction
AtDomain(s) == {z64} \cup {s.txns[k].tid : k \in 1..Len(s.txns)}

\* The transactions that make the history of a storage: each leaves a gap in the
\* tids; objects are created, out of oid order, changed, copied and deleted.
HistObjvs ==
  { <<ObjectData(1, <<120>>, N_sha1, sha1(<<120>>))>>,
    <<ObjectData(1, <<LF>>, N_sha1, sha1(<<LF>>))>>,
    <<ObjectData(2, <<120>>, N_sha1, sha1(<<120>>)), ObjectData(1, <<>>, N_sha1, sha1(<<>>))>>,
    <<ObjectCopy(1, 2)>>,
    <<ObjectDelete(1)>> }
HistTxns(s) ==
  {Transaction(newTid(s) + 1, Escaped.status, Escaped.user, Escaped.description,
               Escaped.extension_bytes, objv) : objv \in HistObjvs}

\* the kinds of storage: FileStorage-like (restoreable, honours tpc_begin(tid));
\* MappingStorage-like (no restore(), honours tpc_begin(tid)); one that has no
\* restore() and assigns its own tid
StorageKinds == {Storage(TRUE, TRUE), Storage(FALSE, TRUE), Storage(FALSE, FALSE)}

----------------------------------------------------------------------------
\* Spec: a storage with a history, then either one zodbcommit call by a caller
\* holding any past state `at`, with storage faults, or the storage dumped and
\* restored by zodbrestore, or replicated by zodbsync, into an empty storage.

Init ==
  /\ stor \in StorageKinds
  /\ prim = Storage(TRUE, TRUE) /\ at = z64 /\ it = <<>> /\ until = -1 /\ runs = 0 /\ dargs = DumpArgs(z64, -1, FALSE)
  /\ cmd = NoOut /\ ex \in [py3 : BOOLEAN]
  /\ zin = <<>> /\ zr = DumpReader /\ rtxns = <<>> /\ rres = REof /\ src = <<>>
  /\ calls = <<>> /\ cres = COk(0) /\ ctxn = NoTxn /\ cat = z64 /\ cpre = stor
  /\ pc = "idle"

\* zodbcommit(s, a, txn) has been called and did com
Called(s, a, txn, com) ==
  /\ stor' = com.stor
  /\ calls' = com.calls
  /\ cres' = com.res
  /\ ctxn' = txn
  /\ cat' = a
  /\ cpre' = s

\* a client at the head of the storage commits the next transaction of its history
Advance ==
  /\ pc = "idle"
  /\ Len(stor.txns) < MaxTxns
  /\ \E txn \in HistTxns(stor) :
       \E com \in {zodbcommit(stor, lastTransaction(stor), txn, 0)} :
         /\ com.res.kind = "ok"
         /\ Called(stor, lastTransaction(stor), txn, com)
  /\ UNCHANGED <<zin, zr, rtxns, rres, src, prim, at, it, until, runs, pc, dargs, cmd, ex>>

\* one call zodbcommit(stor, a, txn), the storage failing of its own at step fault
Commit ==
  /\ pc = "idle"
  /\ \E txn \in CommitTxns(stor), a \in AtDomain(stor) :
       \E fault \in 0..(Len(txn.objv) + 1) :
         \E com \in {zodbcommit(stor, a, txn, fault)} : Called(stor, a, txn, com)
  /\ pc' = "called"
  /\ UNCHANGED <<zin, zr, rtxns, rres, src, prim, at, it, until, runs, dargs, cmd, ex>>

\* the tids a range of zodbdump is given by: up to one past the head of s
TidDomain(s) == 0..(lastTransaction(s) + 1)

\* zodbdump(stor, tidmin, tidmax, hashonly, out=zin); tidmax = -1 stands for None
Dump ==
  /\ pc = "idle"
  /\ \E tidmin \in TidDomain(stor), tidmax \in {-1} \cup TidDomain(stor), hashonly \in BOOLEAN :
       /\ zin' = zodbdump(stor, tidmin, tidmax, hashonly)
       /\ dargs' = DumpArgs(tidmin, tidmax, hashonly)
  /\ pc' = "dumped"
  /\ UNCHANGED <<zr, rtxns, rres, src, stor, prim, at, it, until, runs, calls, cres, ctxn, cat, cpre, cmd, ex>>

\* zodbrestore(stor, r) begins: r holds the raw dump of the storage so far, which
\* becomes prim; stor is a new, empty storage
StartRestore ==
  /\ pc = "idle"
  /\ prim' = stor
  /\ stor' \in StorageKinds
  /\ zin' = zodbdump(stor, z64, -1, FALSE)
  /\ dargs' = DumpArgs(z64, -1, FALSE)
  /\ zr' = DumpReader
  /\ at' = lastTransaction(stor')
  /\ calls' = <<>> /\ cres' = COk(0) /\ ctxn' = NoTxn /\ cat' = z64 /\ cpre' = stor'
  /\ pc' = "restore"
  /\ UNCHANGED <<rtxns, rres, src, it, until, runs, cmd, ex>>

\* zodbrestore: one turn of `while 1`
RestoreStep ==
  /\ pc = "restore"
  /\ \E x \in {restore_step(stor, at, zin, zr, 0, ex.py3)} :
         /\ zr' = x.zr
         /\ at' = x.at
         /\ pc' = CASE x.pc = "loop"   -> "restore"
                    [] x.pc = "done"   -> "restore_done"
                    [] x.pc = "hang"   -> "restore_hang"
                    [] OTHER           -> "restore_raised"
         /\ stor' = x.com.stor
         /\ IF x.com.calls = <<>>
              THEN UNCHANGED <<calls, cres, ctxn, cat, cpre>>
              ELSE /\ calls' = x.com.calls /\ cres' = x.com.res /\ ctxn' = x.txn
                   /\ cat' = at /\ cpre' = stor
  /\ UNCHANGED <<zin, rtxns, rres, src, prim, it, until, runs, dargs, cmd, ex>>

\* zodbsync(primary, secondary, until) begins: the storage so far is the primary,
\* stor a new, empty secondary; until is None or the tid of a primary transaction
StartSync ==
  /\ pc = "idle"
  /\ prim' = stor
  /\ stor' \in StorageKinds
  /\ until' \in {-1} \cup {stor.txns[k].tid : k \in 1..Len(stor.txns)}
  /\ runs' = 1
  /\ at' = lastTransaction(stor')
  /\ it' = iterator(stor, lastTransaction(stor'), until')
  /\ calls' = <<>> /\ cres' = COk(0) /\ ctxn' = NoTxn /\ cat' = z64 /\ cpre' = stor'
  /\ pc' = "sync"
  /\ UNCHANGED <<zin, zr, rtxns, rres, src, dargs, cmd, ex>>

\* zodbsync is stopped between two transactions, one replicated and one yet to come,
\* and called again with the same arguments
ResumeSync ==
  /\ pc = "sync"
  /\ runs < MaxRuns
  /\ stor.txns # <<>> /\ it # <<>>
  /\ runs' = runs + 1
  /\ at' = lastTransaction(stor)
  /\ it' = iterator(prim, lastTransaction(stor), until)
  /\ UNCHANGED <<zin, zr, rtxns, rres, src, stor, prim, until, calls, cres, ctxn, cat, cpre, pc, dargs, cmd, ex>>

\* zodbsync: one turn of `for t in primary.iterator(...)`
SyncStep ==
  /\ pc = "sync"
  /\ IF it = <<>>
       THEN /\ pc' = "sync_done"
            /\ UNCHANGED <<stor, at, it, calls, cres, ctxn, cat, cpre>>
       ELSE \E x \in {sync_step(stor, at, Head(it), 0)} :
                /\ it' = Tail(it)
                /\ at' = x.at
                /\ pc' = IF x.pc \in {"loop", "skip"} THEN "sync" ELSE "sync_raised"
                /\ stor' = x.com.stor
                /\ IF x.pc = "skip"
                     THEN UNCHANGED <<calls, cres, ctxn, cat, cpre>>
                     ELSE /\ calls' = x.com.calls /\ cres' = x.com.res /\ ctxn' = x.txn
                          /\ cat' = at /\ cpre' = stor
  /\ UNCHANGED <<zin, zr, rtxns, rres, src, prim, until, runs, dargs, cmd, ex>>

Next ==
  Advance \/ Commit \/ StartRestore \/ RestoreStep \/ StartSync \/ SyncStep \/ ResumeSync
    \/ Dump

Spec == Init /\ [][Next]_vars

----------------------------------------------------------------------------
\* SpecReader: a dump written from records by Transaction.zdump and read back by
\* DumpReader.readtxn, transaction by transaction, until it returns None or raises.

\* the digest a damaged dump declares for data: the digest of other data
WrongHash(hashfunc, data) == Digest(hashfunc, data \o <<48>>)

\* the records written for oid o: a deletion, a copy, hash-only data, data with the
\* hash the writer computes, and data that does not match the declared hash
DumpObjs(o) ==
  {ObjectDelete(o), ObjectCopy(o, 1), ObjectDataHashOnly(o, 1, N_sha1, sha1(<<120>>)),
   ObjectData(o, <<120>>, N_crc32, crc32(<<120>>))}
    \cup {ObjectData(o, d, N_sha1, sha1(d)) : d \in Payloads}
    \cup {ObjectData(o, d, N_sha1, WrongHash(N_sha1, d)) :
            d \in {x \in Payloads : Len(x) = MaxDataLen}}

\* object lists of at most MaxObjs records, the k-th for oid k
DumpObjvs ==
  UNION {{objv \in [1..n -> UNION {DumpObjs(o) : o \in 1..MaxObjs}] :
            \A k \in 1..n : objv[k].oid = k} : n \in 0..MaxObjs}

\* a status that the writer has to escape
Quote == [Plain EXCEPT !.status = DQUOTE]

\* the transaction under study
DumpTxns ==
  {Transaction(1, h.status, h.user, h.description, h.extension_bytes, objv) :
     h \in {Plain, Escaped, Quote}, objv \in DumpObjvs}

\* the k-th of the transactions that follow it in the dump
NextTxn(k) ==
  Transaction(k + 1, Escaped.status, Escaped.user, Escaped.description,
              Escaped.extension_bytes, <<ObjectData(1, <<LF>>, N_crc32, crc32(<<LF>>))>>)

\* the sequences of transactions written: none, one, or MaxTxns of them
DumpInputs ==
  {<<>>} \cup {<<t>> \o [k \in 1..n |-> NextTxn(k)] : t \in DumpTxns, n \in {0, MaxTxns - 1}}

InitReader ==
  /\ src \in DumpInputs
  /\ zin = zdumpv(src)
  /\ zr = DumpReader /\ rtxns = <<>> /\ rres = REof
  /\ stor = Storage(TRUE, TRUE) /\ prim = Storage(TRUE, TRUE) /\ at = z64 /\ it = <<>> /\ until = -1 /\ runs = 0 /\ dargs = DumpArgs(z64, -1, FALSE)
  /\ cmd = NoOut /\ ex \in [py3 : BOOLEAN]
  /\ calls = <<>> /\ cres = COk(0) /\ ctxn = NoTxn /\ cat = z64 /\ cpre = Storage(TRUE, TRUE)
  /\ pc = "read"

\* one call of readtxn; the caller may go on calling after None was returned
ReadTxn ==
  /\ pc \in {"read", "eof"}
  /\ \E x \in {readtxn(zin, zr, ex.py3)} :
         /\ zr' = x.r
         /\ rres' = x.res
         /\ rtxns' = IF x.res.kind = "txn" THEN Append(rtxns, x.res.txn) ELSE rtxns
         /\ pc' = CASE x.res.kind = "txn"  -> "read"
                    [] x.res.kind = "eof"  -> "eof"
                    [] x.res.kind = "hang" -> "hang"
                    [] OTHER               -> "raised"
  /\ UNCHANGED <<zin, src, stor, prim, at, it, until, runs, calls, cres, ctxn, cat, cpre, dargs, cmd, ex>>

NextReader == ReadTxn

SpecReader == InitReader /\ [][NextReader]_vars

----------------------------------------------------------------------------
\* Properties of the dump format (SpecReader).

\* the data records of txn that carry a payload
Payloaded(txn) == {j \in 1..Len(txn.objv) : txn.objv[j].kind = "data" /\ ~txn.objv[j].hashonly}

\* the payload of objv[j] has the declared hash
HashHolds(obj) == Digest(obj.hashfunc, obj.data) = obj.hash_

\* records as the writer produces them: every payload has its declared hash
Written(txnv) == \A i \in 1..Len(txnv) : \A j \in Payloaded(txnv[i]) : HashHolds(txnv[i].objv[j])

\* the reader has stopped: readtxn returned None, raised, or never returns
ReaderStopped == pc \in {"eof", "raised", "hang"}

\* C1: once the bytes written for a sequence T of transactions have been read until
\* readtxn stops, readtxn has returned None, the records it returned are T, and their
\* zdump() concatenated is the bytes written.
C1_RoundTrip ==
  (ReaderStopped /\ Written(src)) =>
     (pc = "eof" /\ rtxns = src /\ zdumpv(rtxns) = zin)

\* The same law for the transactions whose status the writer leaves as it is
\* (neither a double quote nor a backslash): it holds.
C1_RoundTripPlainStatus ==
  (ReaderStopped /\ Written(src) /\ \A i \in 1..Len(src) : src[i].status \notin {DQUOTE, BACKSLASH}) =>
     (pc = "eof" /\ rtxns = src /\ zdumpv(rtxns) = zin)

\* the first record of the first transaction written whose payload has not the declared hash
FirstCorrupt == SetMin({j \in Payloaded(src[1]) : ~HashHolds(src[1].objv[j])})

\* the first transaction written has a readable header and a record whose payload
\* has not the declared hash, and readtxn has been called
CorruptRead ==
  /\ src # <<>>
  /\ src[1].status \notin {DQUOTE, BACKSLASH}
  /\ \E j \in Payloaded(src[1]) : ~HashHolds(src[1].objv[j])
  /\ (rtxns # <<>> \/ ReaderStopped)

\* C4: no transaction returned by readtxn holds a data record whose payload has not
\* the declared hash; reading such a record raises "data corrupt" with the hex of the
\* computed digest and the hex of the declared one, and no transaction is returned.
C4_HashInvariant ==
  /\ \A i \in 1..Len(rtxns) : \A j \in Payloaded(rtxns[i]) : HashHolds(rtxns[i].objv[j])
  /\ CorruptRead =>
       LET obj == src[1].objv[FirstCorrupt]
       IN  /\ pc = "raised"
           /\ rtxns = <<>>
           /\ rres.exc = "RuntimeError" /\ rres.what = "data corrupt"
           /\ rres.computed = ashex(Digest(obj.hashfunc, obj.data))
           /\ rres.expected = ashex(obj.hash_)
           /\ rres.computed # rres.expected

\* C4: a dump whose second record is corrupt, its first being sound data, is rejected
C4_Witness ==
  /\ CorruptRead /\ FirstCorrupt = 2 /\ 1 \in Payloaded(src[1])
  /\ pc = "raised" /\ rres.what = "data corrupt"

----------------------------------------------------------------------------
\* Properties of zodbcommit (Spec).  calls, cres, ctxn, cat and cpre describe the
\* last call zodbcommit(cpre, cat, ctxn).

\* zodbcommit has been called
HasCalled == calls # <<>>

\* positions in the log of calls to the operations ops
CallsOf(ops) == {k \in 1..Len(calls) : calls[k].op \in ops}

\* the calls that write an object into the transaction being prepared
Writes == CallsOf({"store", "restore", "deleteObject"})

\* the per-object calls and the vote that raised
Raising == {k \in CallsOf({"store", "restore", "deleteObject", "tpc_vote"}) : calls[k].raised # NoErr}

\* the exceptions zodbcommit itself raises over a record: copy source absent, hash-only data
InputErrors ==
  {"ValueError: copy from: no data", "ValueError: cannot commit transaction with hashonly object"}

\* processing of an object record failed, or tpc_vote failed
CommitFailed == Raising # {} \/ (cres.kind = "raise" /\ cres.exc.name \in InputErrors)

\* C5: when processing of a record or tpc_vote fails, tpc_abort is called, once and as
\* the last call, tpc_finish is not called, the exception raised is the one of the
\* failure, and the committed state of the storage is as it was before the call.
C5_AtomicAbort ==
  (HasCalled /\ CommitFailed) =>
     /\ CallsOf({"tpc_abort"}) = {Len(calls)}
     /\ CallsOf({"tpc_finish"}) = {}
     /\ cres.kind = "raise"
     /\ \A k \in Raising : cres.exc = calls[k].raised
     /\ Raising = {} => cres.exc.name \in InputErrors
     /\ stor = cpre

\* C5: the second record of a transaction fails after the first one was written
C5_Witness ==
  /\ HasCalled /\ CommitFailed /\ stor = cpre
  /\ \E k \in Writes : calls[k].raised = NoErr
  /\ calls[Len(calls)].op = "tpc_abort"

\* the first hash-only record of the transaction handed to zodbcommit
HashOnlyAt(txn) == {j \in 1..Len(txn.objv) : txn.objv[j].kind = "data" /\ txn.objv[j].hashonly}

\* C6 as stated: a transaction with a hash-only record is rejected before tpc_begin,
\* store, restore or deleteObject is called.
C6_RejectedBeforeAnyCall ==
  (HasCalled /\ HashOnlyAt(ctxn) # {}) =>
     /\ cres.kind = "raise"
     /\ CallsOf({"tpc_begin", "store", "restore", "deleteObject"}) = {}

\* C6: a transaction with a hash-only record is rejected, wherever the record stands
\* in txn.objv, though not before the store is touched: zodbcommit raises, tpc_begin
\* is the first call and tpc_abort the last, tpc_finish is not called, the only
\* store, restore and deleteObject calls are for records that stand before the first
\* hash-only one (none for that record or any record after it), and the committed
\* state is unchanged.
C6_RejectedAfterBegin ==
  (HasCalled /\ HashOnlyAt(ctxn) # {}) =>
     LET h == SetMin(HashOnlyAt(ctxn))
     IN  /\ cres.kind = "raise"
         /\ calls[1].op = "tpc_begin"
         /\ calls[Len(calls)].op = "tpc_abort"
         /\ CallsOf({"tpc_finish"}) = {}
         /\ Cardinality(Writes) <= h - 1
         /\ \A k \in Writes : \E j \in 1..(h - 1) : calls[k].oid = ctxn.objv[j].oid
         /\ stor = cpre

\* C6: the hash-only record is the second one, and the first one has been stored
C6_Witness ==
  /\ HasCalled /\ HashOnlyAt(ctxn) = {2}
  /\ cres.exc.name = "ValueError: cannot commit transaction with hashonly object"
  /\ Cardinality(Writes) = 1

\* the record before the hash-only one is a copy without a source: the call raised for
\* the copy, and no record was written
C6_EarlierCopyRejected ==
  /\ HasCalled /\ HashOnlyAt(ctxn) = {2} /\ ctxn.objv[1].kind = "copy"
  /\ cres.exc.name = "ValueError: copy from: no data" /\ Writes = {}

\* the store of the record before the hash-only one raised ConflictError
C6_EarlierConflict ==
  /\ HasCalled /\ HashOnlyAt(ctxn) = {2} /\ ctxn.objv[1].kind = "data"
  /\ cres.exc.name = "ConflictError" /\ Cardinality(Writes) = 1


\* the record the dump of a storage shows for obj once committed by a regular commit:
\* a copy shows as the data of the revision copied
Shown(s, obj) ==
  IF obj.kind = "copy"
  THEN LET d == loadBefore(s, obj.oid, obj.copy_from + 1).data
       IN  ObjectData(obj.oid, d, N_sha1, sha1(d))
  ELSE obj

\* C7: a regular commit (txn.tid = 0) at the head of the storage that returns, returns
\* a tid greater than at, and the raw dump of the storage over (at, tid] is one
\* transaction: the returned tid, the submitted user, description and extension, and
\* the submitted objects in oid order, a copy being shown as the data copied.
C7_RegularCommit ==
  (HasCalled /\ ctxn.tid = z64 /\ cat = lastTransaction(cpre) /\ cres.kind = "ok") =>
     LET tv == iterator(stor, cat + 1, cres.tid)
     IN  /\ cres.tid > cat
         /\ Len(tv) = 1
         /\ tv[1].user = ctxn.user
         /\ tv[1].description = ctxn.description
         /\ tv[1].extension_bytes = ctxn.extension_bytes
         /\ zodbdump(stor, cat + 1, cres.tid, FALSE) =
              zdump(Transaction(cres.tid, tv[1].status, ctxn.user, ctxn.description,
                                ctxn.extension_bytes,
                                SortByOid([j \in 1..Len(ctxn.objv) |-> Shown(cpre, ctxn.objv[j])])))

\* C7: a regular commit at the head of a storage with history: metadata that needs
\* escaping, two objects given out of oid order, one of them a copy
C7_Witness ==
  /\ HasCalled /\ ctxn.tid = z64 /\ cat = lastTransaction(cpre) /\ cat # z64
  /\ cres.kind = "ok"
  /\ ctxn.user = Escaped.user
  /\ Len(ctxn.objv) = 2 /\ ctxn.objv[1].oid > ctxn.objv[2].oid
  /\ \E j \in 1..2 : ctxn.objv[j].kind = "copy"

\* C8: when txn.tid # 0 the first call is tpc_begin with txn.tid and txn.status, and
\* zodbcommit returns txn.tid or raises; on storages with and without restore().
C8_ExactId ==
  (HasCalled /\ ctxn.tid # z64) =>
     /\ calls[1] = Call("tpc_begin", 0, 0, <<>>, ctxn.tid, ctxn.status, NoErr)
     /\ cres.kind = "ok" => cres.tid = ctxn.tid
     /\ cres.kind \in {"ok", "raise"}

\* C8: a storage that assigns its own tid committed the transaction under another
\* tid than the one asked for, and zodbcommit raised
C8_Witness ==
  /\ HasCalled /\ ctxn.tid # z64 /\ ~cpre.exact_tid
  /\ Len(stor.txns) = Len(cpre.txns) + 1
  /\ lastTransaction(stor) # ctxn.tid
  /\ cres.kind = "raise"

\* tid of the latest revision of oid with tid <= a in storage s (a deletion is a
\* revision too); the zero tid when there is none
RevisionAt(s, oid, a) ==
  LET P == {p \in RecsOf(s, oid) : s.txns[p[1]].tid <= a}
  IN  IF P = {} THEN z64 ELSE s.txns[LatestPos(P)[1]].tid

\* C9, for the store and deleteObject calls: each supplies the tid of the latest
\* revision of its oid with tid <= at, or the zero tid when there is none.
C9_SerialAsOfAt ==
  HasCalled =>
    \A k \in CallsOf({"store", "deleteObject"}) :
       calls[k].serial = RevisionAt(cpre, calls[k].oid, cat)

\* C9, for the restore calls: each supplies such a serial too.
C9_RestoreSerialAsOfAt ==
  HasCalled =>
    \A k \in CallsOf({"restore"}) : calls[k].serial = RevisionAt(cpre, calls[k].oid, cat)

\* What the calls do supply: store and deleteObject the tid of the latest revision
\* with tid <= at when that revision holds data, the zero tid when it is a deletion or
\* there is none; restore the tid of the transaction being restored.
C9_SerialSupplied ==
  HasCalled =>
    /\ \A k \in CallsOf({"store", "deleteObject"}) :
         LET x == loadBefore(cpre, calls[k].oid, cat + 1)
         IN  calls[k].serial = IF x.kind = "data" THEN RevisionAt(cpre, calls[k].oid, cat)
                               ELSE z64
    /\ \A k \in CallsOf({"restore"}) : calls[k].serial = ctxn.tid

\* the calls that raised ConflictError
Conflicts == {k \in CallsOf({"store", "deleteObject"}) : calls[k].raised.name = "ConflictError"}

\* C10: when store or deleteObject raises ConflictError, that call is the last
\* per-object call, tpc_abort follows it as the one and last abort, there is one
\* tpc_begin, no tpc_vote or tpc_finish, and zodbcommit raises that same exception.
C10_ConflictSurfaced ==
  \A k \in Conflicts :
     /\ k = Len(calls) - 1
     /\ CallsOf({"tpc_abort"}) = {Len(calls)}
     /\ CallsOf({"tpc_begin"}) = {1}
     /\ CallsOf({"tpc_vote", "tpc_finish"}) = {}
     /\ \A j \in Writes : j <= k
     /\ cres = CRaise(calls[k].raised)
     /\ stor = cpre

\* C10: a caller whose at is behind the head writes two objects; the first one has a
\* newer revision and the store call for it raises ConflictError
C10_Witness ==
  /\ Conflicts # {}
  /\ Len(ctxn.objv) = 2 /\ ctxn.objv[1].kind = "data"
  /\ cat < committed_tid(cpre, ctxn.objv[1].oid)
  /\ Cardinality(Writes) = 1

\* zodbrestore has ended: returned, raised, or hangs in readtxn
RestoreEnded == pc \in {"restore_done", "restore_raised", "restore_hang"}

\* the tids of the transactions of a storage, in commit order
Tids(s) == [k \in 1..Len(s.txns) |-> s.txns[k].tid]

\* C2, for the storages that honour the tid given to tpc_begin: zodbrestore of the raw
\* dump of prim into an empty storage returns, and leaves a storage with the same
\* raw dump and the same tids.
C2_DumpRestoreLossless ==
  (RestoreEnded /\ stor.exact_tid) =>
     /\ pc = "restore_done"
     /\ zodbdump(stor, z64, -1, FALSE) = zin
     /\ Tids(stor) = Tids(prim)

\* The same for the storages that provide restore() as well: it holds.
C2_LosslessWhenRestoreable ==
  (RestoreEnded /\ stor.exact_tid /\ stor.restoreable) =>
     /\ pc = "restore_done"
     /\ zodbdump(stor, z64, -1, FALSE) = zin
     /\ Tids(stor) = Tids(prim)

\* zodbsync has ended: returned or raised
SyncEnded == pc \in {"sync_done", "sync_raised"}

\* C3, for until = None and an empty secondary that provides restore() and honours the
\* tid given to tpc_begin: zodbsync returns and leaves a secondary with the raw dump of the primary.
C3_SyncEquivalent ==
  (SyncEnded /\ until = -1 /\ stor.exact_tid /\ stor.restoreable) =>
     /\ pc = "sync_done"
     /\ zodbdump(stor, z64, -1, FALSE) = zodbdump(prim, z64, -1, FALSE)

\* The same for the primaries that hold no copy record: it holds.
C3_EquivalentWithoutCopies ==
  (SyncEnded /\ until = -1 /\ stor.exact_tid /\ stor.restoreable
     /\ \A i \in 1..Len(prim.txns) : \A j \in 1..Len(prim.txns[i].recs) :
          prim.txns[i].recs[j].data_txn = 0) =>
     /\ pc = "sync_done"
     /\ zodbdump(stor, z64, -1, FALSE) = zodbdump(prim, z64, -1, FALSE)


----------------------------------------------------------------------------
\* Copy records (Spec).

\* the value of oid as of copy_from in the storage the last call began with
CopySource(obj) == loadBefore(cpre, obj.oid, obj.copy_from + 1)

\* positions of the copy records of the transaction of the last call
Copies == {k \in 1..Len(ctxn.objv) : ctxn.objv[k].kind = "copy"}

\* C11: after zodbcommit returned a tid for a transaction that holds
\* ObjectCopy(oid, copy_from), the value of oid as of that tid is the value oid had
\* as of copy_from; when the storage held no value of oid as of copy_from, zodbcommit
\* raises, the transaction is aborted and nothing is committed, and the exception is
\* the ValueError of the copy unless an earlier record failed first.
C11_CopyMaterialized ==
  HasCalled =>
    \A k \in Copies :
      /\ cres.kind = "ok" =>
           /\ CopySource(ctxn.objv[k]).kind = "data"
           /\ loadBefore(stor, ctxn.objv[k].oid, cres.tid + 1) =
                [kind |-> "data", data |-> CopySource(ctxn.objv[k]).data, serial |-> cres.tid]
      /\ CopySource(ctxn.objv[k]).kind # "data" =>
           /\ cres.kind = "raise"
           /\ CallsOf({"tpc_abort"}) = {Len(calls)}
           /\ CallsOf({"tpc_finish"}) = {}
           /\ stor = cpre
           /\ (k = 1 => cres.exc = Err("ValueError: copy from: no data", ctxn.objv[k].oid))
           /\ \A j \in Writes : calls[j].oid # ctxn.objv[k].oid

\* C11: a copy was committed from a revision that is not the current one, and the
\* object now holds the data of that revision
C11_Witness ==
  /\ HasCalled /\ cres.kind = "ok"
  /\ \E k \in Copies :
       /\ CopySource(ctxn.objv[k]).kind = "data"
       /\ CopySource(ctxn.objv[k]).serial # committed_tid(cpre, ctxn.objv[k].oid)
       /\ loadBefore(cpre, ctxn.objv[k].oid, newTid(cpre)).data # CopySource(ctxn.objv[k]).data
       /\ loadBefore(stor, ctxn.objv[k].oid, cres.tid + 1).data = CopySource(ctxn.objv[k]).data

\* a copy whose source is absent was refused
C11_AbsentSource ==
  /\ HasCalled /\ cres.kind = "raise" /\ stor = cpre
  /\ \E k \in Copies : CopySource(ctxn.objv[k]).kind # "data"

----------------------------------------------------------------------------
\* Order of the dump (Spec).  From StartRestore on, zin is what zodbdump wrote for
\* the storage prim.

Dumped == pc \in {"restore", "restore_done", "restore_hang", "restore_raised"}

\* the obj lines zodbdump writes for the stored transaction t, as records
DumpedObjv(t, hashonly) == readtxn(dump_txn(t, hashonly), DumpReader, ex.py3).res.txn.objv

\* objv is strictly ascending by oid
StrictlyAscending(objv) == \A i, j \in 1..Len(objv) : i < j => objv[i].oid < objv[j].oid

\* C12: the obj lines zodbdump emits for a transaction are strictly ascending by
\* oid, whatever the order in which the storage yields the records of the
\* transaction (records being unique by oid within a transaction).
C12_CanonicalOrder ==
  Dumped =>
    /\ zin = dump_txnv(prim.txns, FALSE)
    /\ \A k \in 1..Len(prim.txns) : \A hashonly \in BOOLEAN :
         /\ Len(DumpedObjv(prim.txns[k], hashonly)) = Len(prim.txns[k].recs)
         /\ StrictlyAscending(DumpedObjv(prim.txns[k], hashonly))

\* C12: a transaction whose records the storage yields out of oid order was dumped
C12_Witness ==
  /\ Dumped
  /\ \E k \in 1..Len(prim.txns) :
       /\ Len(prim.txns[k].recs) = 2
       /\ prim.txns[k].recs[1].oid > prim.txns[k].recs[2].oid
       /\ DumpedObjv(prim.txns[k], FALSE)[1].oid = prim.txns[k].recs[2].oid

----------------------------------------------------------------------------
\* SpecRestore: zodbrestore(stor, r) into an empty storage, r being any well-formed
\* dump, whoever wrote it: its transactions stand in any order of tid.

\* the tids found in such a dump
RestoreTids == {2, 4}

\* the object lists found in such a dump
RestoreObjvs ==
  {<<>>, <<ObjectData(1, <<120>>, N_sha1, sha1(<<120>>))>>, <<ObjectDelete(1)>>,
   <<ObjectCopy(1, 2)>>}

RestoreTxns ==
  {Transaction(tid, Plain.status, Plain.user, Plain.description, Plain.extension_bytes, objv) :
     tid \in RestoreTids, objv \in RestoreObjvs}

InitRestore ==
  /\ src \in SeqsUpTo(RestoreTxns, MaxTxns)
  /\ zin = zdumpv(src)
  /\ zr = DumpReader /\ rtxns = <<>> /\ rres = REof
  /\ stor \in StorageKinds
  /\ prim = Storage(TRUE, TRUE) /\ at = z64 /\ it = <<>> /\ until = -1 /\ runs = 0 /\ dargs = DumpArgs(z64, -1, FALSE)
  /\ cmd = NoOut /\ ex \in [py3 : BOOLEAN]
  /\ calls = <<>> /\ cres = COk(0) /\ ctxn = NoTxn /\ cat = z64 /\ cpre = stor
  /\ pc = "restore"

NextRestore == RestoreStep

SpecRestore == InitRestore /\ [][NextRestore]_vars

\* zodbrestore or zodbsync has handed a transaction to zodbcommit
Handed ==
  /\ pc \in {"restore", "restore_done", "restore_hang", "restore_raised",
             "sync", "sync_done", "sync_raised"}
  /\ HasCalled

\* C13: the tids that zodbrestore and zodbsync hand to zodbcommit are strictly
\* increasing: each is greater than the one handed before it, which is the `at` of
\* the call.
C13_IncreasingTids == Handed => ctxn.tid > cat

\* the tids of txnv are strictly increasing
IncreasingTids(txnv) == \A i, j \in 1..Len(txnv) : i < j => txnv[i].tid < txnv[j].tid

\* the tids handed on are increasing when the dump holds them so: zodbrestore takes
\* the transactions in the order of the dump
C13_OrderOfTheDump == (Handed /\ IncreasingTids(src)) => ctxn.tid > cat

----------------------------------------------------------------------------
\* zodbsync called again (Spec).

RECURSIVE SyncRun(_, _, _)
\* the secondary that one call of zodbsync leaves, its loop taking the transactions
\* txnv from the secondary s with at = a, to the end or to the first exception
SyncRun(s, a, txnv) ==
  IF txnv = <<>> THEN s
  ELSE LET turn(x) ==
             IF x.pc \in {"loop", "skip"} THEN SyncRun(x.com.stor, x.at, Tail(txnv))
             ELSE x.com.stor
       IN  turn(sync_step(s, a, Head(txnv), 0))

\* the secondary an uninterrupted zodbsync(prim, secondary, until) leaves, the
\* secondary being empty and of the kind of stor
Uninterrupted ==
  SyncRun([stor EXCEPT !.txns = <<>>], z64, iterator(prim, z64, until))

Syncing == pc \in {"sync", "sync_done", "sync_raised"}

\* C14: when zodbsync is stopped between two transactions and called again, the
\* second call starts from the head of the secondary; no transaction is committed
\* a second time (no tid stands twice in the secondary); no primary transaction
\* above that head and up to until is skipped; and the call, taken to its end,
\* leaves the secondary an uninterrupted zodbsync leaves.
C14_Resumable ==
  Syncing =>
    /\ \A i, j \in 1..Len(stor.txns) : i # j => stor.txns[i].tid # stor.txns[j].tid
    /\ pc = "sync" =>
         /\ at = lastTransaction(stor)
         /\ \A k \in 1..Len(prim.txns) :
              (prim.txns[k].tid > at /\ (until < 0 \/ prim.txns[k].tid <= until))
                 => \E n \in 1..Len(it) : it[n] = prim.txns[k]
         /\ SyncRun(stor, at, it) = Uninterrupted
    /\ pc \in {"sync_done", "sync_raised"} => stor = Uninterrupted

\* C14: zodbsync was called again after it had replicated a transaction and before
\* it had replicated the next one, and the second call has replicated the rest
C14_Witness ==
  /\ pc = "sync_done" /\ runs = 2
  /\ Len(stor.txns) = 2
  /\ Tids(stor) = Tids(prim)
  /\ cat = stor.txns[1].tid /\ ctxn.tid = stor.txns[2].tid

\* zodbsync called again right after a transaction was replicated: the iterator of
\* the second call begins with the transaction at the secondary's head
C14_JustResumed ==
  /\ pc = "sync" /\ runs = 2 /\ it # <<>> /\ Head(it).tid = at /\ Len(it) >= 2

----------------------------------------------------------------------------
\* End of stream (SpecReader).

\* every byte of the input has been read
Exhausted == zr.pos = Len(zin)

\* C15: when the input is exhausted at a transaction boundary, the empty input
\* included, readtxn returns None and raises nothing, and a call made after None
\* was returned returns None again and leaves the reader as it is.
C15_CleanEof ==
  /\ (pc \in {"read", "eof"} /\ Exhausted) => readtxn(zin, zr, ex.py3).res = REof
  /\ pc = "eof" =>
       /\ rres = REof
       /\ Exhausted
       /\ readtxn(zin, zr, ex.py3) = [res |-> REof, r |-> zr]

\* C15: None was returned at the end of a dump of MaxTxns transactions, all of them
\* returned before
C15_Witness == pc = "eof" /\ Len(src) = MaxTxns /\ rtxns = src /\ zr.lineno > 0

\* None was returned for the empty input
C15_EmptyInput == pc = "eof" /\ zin = <<>> /\ rtxns = <<>>

----------------------------------------------------------------------------
\* Ranges of zodbdump (Spec).  After Dump, zin is what zodbdump(stor, dargs.tidmin,
\* dargs.tidmax, dargs.hashonly) wrote.

\* the range holds no committed transaction
EmptyRange ==
  \A k \in 1..Len(stor.txns) :
    ~(dargs.tidmin <= stor.txns[k].tid /\ (dargs.tidmax < 0 \/ stor.txns[k].tid <= dargs.tidmax))

\* tidmin > tidmax
InvertedRange == dargs.tidmax >= 0 /\ dargs.tidmin > dargs.tidmax

\* C16: zodbdump over an inverted range (tidmin > tidmax), and over any range that
\* holds no transaction, writes no byte.
C16_EmptyRange ==
  pc = "dumped" =>
    /\ InvertedRange => EmptyRange
    /\ EmptyRange => zin = <<>>

\* C16: a storage that holds transactions was dumped over the range
\* tidmax+1..tidmax, tidmax being the tid of its last transaction
C16_Witness ==
  /\ pc = "dumped" /\ stor.txns # <<>>
  /\ dargs.tidmax = lastTransaction(stor) /\ dargs.tidmin = dargs.tidmax + 1
  /\ zin = <<>>

\* a range that holds transactions gives a dump that is not empty
C16_RangeNotEmpty == pc = "dumped" /\ ~EmptyRange /\ zin # <<>> /\ dargs.tidmax >= 0

----------------------------------------------------------------------------
\* Position of the "data corrupt" error (SpecReader).

\* the lines the writer emits for a record: the obj line, and for a payload its
\* lines, the last of them ended by the LF that follows the payload
LinesOf(obj) ==
  IF obj.kind = "data" /\ ~obj.hashonly THEN 1 + count(obj.data, LF) + 1 ELSE 1

RECURSIVE LinesBefore(_, _)
\* the lines the writer emits for the records before objv[j]
LinesBefore(objv, j) ==
  IF j = 1 THEN 0 ELSE LinesBefore(objv, j - 1) + LinesOf(objv[j - 1])

\* the 1-based number of the obj line of objv[j] in the dump of the first transaction:
\* four header lines come first
ObjLine(txn, j) == 4 + LinesBefore(txn.objv, j) + 1

\* C17 as claimed: the "data corrupt" error carries the number of the obj line of the
\* record whose payload has not the declared hash.
C17_ObjLineNumber ==
  CorruptRead => rres.lineno = ObjLine(src[1], FirstCorrupt)

\* C17: the "data corrupt" error carries the number of the last line of the payload of
\* the record: the number of its obj line plus the number of LF bytes in the payload
\* plus one.
C17_PayloadEndLineNumber ==
  CorruptRead =>
    /\ rres.what = "data corrupt"
    /\ rres.lineno = ObjLine(src[1], FirstCorrupt)
                       + count(src[1].objv[FirstCorrupt].data, LF) + 1
    /\ rres.lineno > ObjLine(src[1], FirstCorrupt)

\* C17: a record whose payload holds an LF and has not the declared hash was read,
\* a record with a payload standing before it
C17_Witness ==
  /\ CorruptRead /\ pc = "raised" /\ rres.what = "data corrupt"
  /\ FirstCorrupt = 2 /\ 1 \in Payloaded(src[1])
  /\ count(src[1].objv[FirstCorrupt].data, LF) > 0
----------------------------------------------------------------------------
\* SpecStream: a stream of lines that no writer of the repository produced, read by
\* DumpReader.readtxn until it returns None or raises.  src describes the stream:
\* the lines of the header, the obj line (if any), and the lines after it.

\* hash function names as they stand in a stream: one registered, two that are not
\* ('xyz', and 'SHA1': the registry is case-sensitive)
N_xyz  == <<120, 121, 122>>
N_SHA1 == <<83, 72, 65, 49>>
StreamHashNames == {N_sha1, N_xyz, N_SHA1}

\* hexadecimal hashes as they stand in a stream: '0123', '012' (an odd number of
\* digits) and the SHA-1 of the payload b'x'
StreamHashes == {<<48, 49, 50, 51>>, <<48, 49, 50>>, ashex(sha1(<<120>>))}

\* the line 'obj <oid> <size> <hashfunc>:<hash>' with ' -' after it when mark
ObjDataLine(oid, size, hashfunc, hash, mark) ==
  B_obj \o ashex(p64(oid)) \o <<SP>> \o fmt_d(size) \o <<SP>> \o hashfunc \o <<58>> \o hash
    \o (IF mark THEN <<SP, 45>> ELSE <<>>)

\* the four lines that open a transaction: txn 0000000000000001 " ", user "",
\* description "", extension ""
StreamHeader ==
  <<B_txn \o ashex(p64(1)) \o <<SP, DQUOTE, SP, DQUOTE>>,
    B_user \o <<SP, DQUOTE, DQUOTE>>,
    B_description \o <<SP, DQUOTE, DQUOTE>>,
    B_extension \o <<SP, DQUOTE, DQUOTE>>>>

\* a stream: head are its header lines, obj its obj lines (at most one here), tail
\* the lines after them; shape, hashfunc, hash, hashonly and extra describe the obj line
StreamOf(head, obj, tail, shape, hashfunc, hash, hashonly, extra) ==
  [head |-> head, obj |-> obj, tail |-> tail, shape |-> shape, hashfunc |-> hashfunc,
   hash |-> hash, hashonly |-> hashonly, extra |-> extra]

\* the bytes of a stream: every line followed by LF
StreamBytes(s) == Concat([k \in 1..Len(s.head \o s.obj \o s.tail) |->
                            (s.head \o s.obj \o s.tail)[k] \o <<LF>>])

\* streams with one data line of size 1, followed by the payload b'x' and the blank
\* line that closes the transaction, or by the blank line alone
HashStreams ==
  {StreamOf(StreamHeader, <<ObjDataLine(1, 1, f, h, mark)>>, tail, "data", f, h, mark, <<>>) :
     f \in StreamHashNames, h \in StreamHashes, mark \in BOOLEAN,
     tail \in {<<<<120>>, <<>>>>, <<<<>>>>}}

\* the lines 'obj <oid> delete' and 'obj <oid> from <tid>'
ObjDeleteLine(oid) == B_obj \o ashex(p64(oid)) \o <<SP>> \o B_delete
ObjCopyLine(oid, copy_from) == B_obj \o ashex(p64(oid)) \o <<SP>> \o B_from \o ashex(p64(copy_from))

\* what a stream may carry after an obj line of one of the three shapes: nothing,
\* an 'x', a space
Extras == {<<>>, <<120>>, <<SP>>}

\* obj lines of none of the three shapes: 'obj <oid> remove', a copy with a tid of
\* 4 digits, a data line without hash, a deletion with an oid of 4 digits
OtherObjLines ==
  {B_obj \o ashex(p64(1)) \o <<SP>> \o <<114, 101, 109, 111, 118, 101>>,
   B_obj \o ashex(p64(1)) \o <<SP>> \o B_from \o <<48, 48, 48, 49>>,
   B_obj \o ashex(p64(1)) \o <<SP>> \o fmt_d(1) \o <<SP>> \o N_sha1 \o <<58>>,
   B_obj \o <<48, 48, 48, 49>> \o <<SP>> \o B_delete}

\* streams with one obj line: each of the three shapes (the data line with and
\* without the hash-only marker, with the right hash of the payload b'x') followed
\* by an extra, and the lines of no shape
ShapeStreams ==
  {StreamOf(StreamHeader, <<ObjDeleteLine(1) \o x>>, <<<<>>>>,
            "delete", <<>>, <<>>, FALSE, x) : x \in Extras}
  \cup {StreamOf(StreamHeader, <<ObjCopyLine(1, 1) \o x>>, <<<<>>>>,
                 "from", <<>>, <<>>, FALSE, x) : x \in Extras}
  \cup {StreamOf(StreamHeader, <<ObjDataLine(1, 1, N_sha1, ashex(sha1(<<120>>)), TRUE) \o x>>,
                 <<<<>>>>, "data", N_sha1, ashex(sha1(<<120>>)), TRUE, x) : x \in Extras}
  \cup {StreamOf(StreamHeader, <<ObjDataLine(1, 1, N_sha1, ashex(sha1(<<120>>)), FALSE) \o x>>,
                 <<<<120>>, <<>>>>, "data", N_sha1, ashex(sha1(<<120>>)), FALSE, x) : x \in Extras}
  \cup {StreamOf(StreamHeader, <<l>>, <<<<>>>>, "other", <<>>, <<>>, FALSE, <<>>) :
          l \in OtherObjLines}

\* first lines that do not match 'txn <16-hex> "<1 char>"': a tid of 4 digits, a
\* status of two characters, a character after the closing quote
BadTxnLines ==
  {B_txn \o <<48, 48, 48, 49>> \o <<SP, DQUOTE, SP, DQUOTE>>,
   B_txn \o ashex(p64(1)) \o <<SP, DQUOTE, SP, SP, DQUOTE>>,
   B_txn \o ashex(p64(1)) \o <<SP, DQUOTE, SP, DQUOTE, 120>>}

\* the line 'usr ""' and the line 'user""'
UsrLine    == <<117, 115, 114, SP, DQUOTE, DQUOTE>>
UserNoSpLine == B_user \o <<DQUOTE, DQUOTE>>

\* headers that are not the four lines of a transaction: a first line that does not
\* match, the user line missing, misnamed or without its space, description before
\* user, and the header cut after 1, 2 or 3 lines
BadHeaders ==
  {[StreamHeader EXCEPT ![1] = l] : l \in BadTxnLines}
  \cup {<<StreamHeader[1], StreamHeader[3], StreamHeader[4]>>,
        [StreamHeader EXCEPT ![2] = UsrLine],
        [StreamHeader EXCEPT ![2] = UserNoSpLine],
        <<StreamHeader[1], StreamHeader[3], StreamHeader[2], StreamHeader[4]>>}
  \cup {SubSeq(StreamHeader, 1, k) : k \in 1..3}

\* streams for the frame of a transaction: a header, good or bad, with no obj line;
\* a good header with a fourth metadata line; a good header with a deletion or with
\* a data line and its payload b'x'; each closed by the blank line or cut before it,
\* the data line also cut before its payload
FrameStreams ==
  {StreamOf(h, <<>>, tail, "none", <<>>, <<>>, FALSE, <<>>) :
     h \in BadHeaders \cup {StreamHeader}, tail \in {<<>>, <<<<>>>>}}
  \cup {StreamOf(StreamHeader, <<StreamHeader[2]>>, tail, "meta", <<>>, <<>>, FALSE, <<>>) :
          tail \in {<<>>, <<<<>>>>}}
  \cup {StreamOf(StreamHeader, <<ObjDeleteLine(1)>>, tail, "delete", <<>>, <<>>, FALSE, <<>>) :
          tail \in {<<>>, <<<<>>>>}}
  \cup {StreamOf(StreamHeader, <<ObjDataLine(1, 1, N_sha1, ashex(sha1(<<120>>)), FALSE)>>, tail,
                 "data", N_sha1, ashex(sha1(<<120>>)), FALSE, <<>>) :
          tail \in {<<>>, <<<<120>>>>, <<<<120>>, <<>>>>}}

\* the data line of the payload b'x' with its size written '01'
ObjDataLineZero ==
  B_obj \o ashex(p64(1)) \o <<SP, 48, 49, SP>> \o N_sha1 \o <<58>> \o ashex(sha1(<<120>>))

\* streams whose data line writes the size with a leading zero, with the payload and
\* hash-only
ZeroSizeStreams ==
  {StreamOf(StreamHeader, <<ObjDataLineZero>>, <<<<120>>, <<>>>>,
            "data", N_sha1, ashex(sha1(<<120>>)), FALSE, <<>>),
   StreamOf(StreamHeader, <<ObjDataLineZero \o <<SP, 45>>>>, <<<<>>>>,
            "data", N_sha1, ashex(sha1(<<120>>)), TRUE, <<>>)}

Streams == HashStreams \cup ShapeStreams \cup FrameStreams \cup ZeroSizeStreams

InitStream ==
  /\ src \in Streams
  /\ zin = StreamBytes(src)
  /\ zr = DumpReader /\ rtxns = <<>> /\ rres = REof
  /\ stor = Storage(TRUE, TRUE) /\ prim = Storage(TRUE, TRUE) /\ at = z64 /\ it = <<>>
  /\ until = -1 /\ runs = 0 /\ dargs = DumpArgs(z64, -1, FALSE)
  /\ cmd = NoOut /\ ex \in [py3 : BOOLEAN]
  /\ calls = <<>> /\ cres = COk(0) /\ ctxn = NoTxn /\ cat = z64 /\ cpre = Storage(TRUE, TRUE)
  /\ pc = "read"

NextStream == ReadTxn

SpecStream == InitStream /\ [][NextStream]_vars

\* the reader has made its first call on the stream
FirstCallMade == pc # "read" \/ rtxns # <<>>

\* the number of bytes of the stream up to and including the LF of its k-th line
EndOfLine(s, k) == Len(Concat([j \in 1..k |-> (s.head \o s.obj \o s.tail)[j] \o <<LF>>]))

\* the stream has a well-formed header and a data line with an unregistered hashfunc
UnknownHashFunction ==
  /\ src.head = StreamHeader /\ src.shape = "data" /\ src.extra = <<>>
  /\ src.hashfunc \notin hashRegistry

\* readtxn raised without reading a byte after the obj line, and returned no record
RaisedAtObjLine ==
  /\ pc = "raised" /\ rres.kind = "error" /\ rtxns = <<>>
  /\ zr.pos = EndOfLine(src, Len(src.head) + 1)

\* the error is the format error that names the obj line and its number
NamesObjLine ==
  rres = RErr("RuntimeError", "unknown hash function", Len(src.head) + 1,
              Some(src.obj[1]), <<>>, <<>>)

\* C18 as stated: a data line whose hashfunc is not in the hash registry makes readtxn
\* raise the format error naming that line, before any payload byte is read, for
\* hash-only and inline-payload lines alike.
C18_UnknownHashFunction ==
  (FirstCallMade /\ UnknownHashFunction) => (RaisedAtObjLine /\ NamesObjLine)

\* What the reader does on such a line: it raises before any payload byte is read, for
\* hash-only and inline-payload lines alike; the error is the format error naming the
\* line when the hash has an even number of hex digits, and the error of fromhex
\* (binascii.Error on Python 3, TypeError on Python 2), which names no line, when it
\* has an odd number of them.
C18_RejectedBeforePayload ==
  (FirstCallMade /\ UnknownHashFunction) =>
     /\ RaisedAtObjLine
     /\ IF Len(src.hash) % 2 = 0 THEN NamesObjLine
        ELSE /\ rres.exc = (IF ex.py3 THEN "binascii.Error" ELSE "TypeError")
             /\ rres.line = None

\* an inline-payload line with an unregistered hashfunc was rejected with the format
\* error, the payload and the closing line still unread
C18_Witness ==
  /\ FirstCallMade /\ UnknownHashFunction /\ ~src.hashonly /\ Len(src.tail) = 2
  /\ NamesObjLine /\ zr.pos < Len(zin)

\* the same for a hash-only line
C18_HashOnlyRejected ==
  /\ FirstCallMade /\ UnknownHashFunction /\ src.hashonly /\ NamesObjLine

\* under Python 2 a hash with an odd number of digits was rejected with TypeError
C18_OddHashOnPython2 ==
  /\ FirstCallMade /\ UnknownHashFunction /\ ~ex.py3 /\ Len(src.hash) % 2 = 1
  /\ RaisedAtObjLine /\ rres.exc = "TypeError"

\* the stream has a well-formed header and one obj line whose hash function, if it
\* names one, is registered and whose hash has an even number of digits
ShapeCase ==
  /\ src.head = StreamHeader /\ src.shape \in {"delete", "from", "data", "other"}
  /\ src.shape = "data" => (src.hashfunc \in hashRegistry /\ Len(src.hash) % 2 = 0)

\* readtxn raised the format error on the obj line and returned no record
FormatErrorAtObjLine ==
  /\ pc = "raised" /\ rtxns = <<>>
  /\ rres = RErr("RuntimeError", "invalid obj entry", Len(src.head) + 1,
                 Some(src.obj[1]), <<>>, <<>>)

\* C19: readtxn accepts an obj line only when the whole line has one of the three
\* shapes; every other obj line, one of these shapes followed by extra characters
\* included, is a fatal format error.
C19_WholeLineShapes ==
  (FirstCallMade /\ ShapeCase) =>
     IF src.shape \in {"delete", "from", "data"} /\ src.extra = <<>>
       THEN rres.exc # "RuntimeError" \/ rres.what # "invalid obj entry"
       ELSE FormatErrorAtObjLine

\* what the reader does: an obj line is a format error exactly when it does not
\* start with one of the three shapes
C19_PrefixShapes ==
  (FirstCallMade /\ ShapeCase) =>
     IF src.shape \in {"delete", "from", "data"}
       THEN rres.exc # "RuntimeError" \/ rres.what # "invalid obj entry"
       ELSE FormatErrorAtObjLine

\* a line of one of the three shapes followed by extra characters was read as a record
C19_ExtraAccepted ==
  /\ FirstCallMade /\ ShapeCase /\ src.extra # <<>>
  /\ Len(rtxns) = 1 /\ Len(rtxns[1].objv) = 1

\* a line of none of the three shapes was rejected
C19_OtherRejected ==
  /\ FirstCallMade /\ ShapeCase /\ src.shape = "other" /\ FormatErrorAtObjLine

\* the lines of the stream
StreamLines == src.head \o src.obj \o src.tail

\* the header of the stream is the four lines of a transaction
HeaderOk == src.head = StreamHeader

\* the number of the first line that is not the header line due at its place
FirstBad == SetMin({k \in 1..4 : k > Len(src.head) \/ src.head[k] # StreamHeader[k]} \cup {5})

\* the payload of the data line, if any, is whole and the blank line closes the list
Closed ==
  IF src.shape = "data" /\ ~src.hashonly
    THEN Len(src.tail) = 2 /\ Len(src.tail[1]) = 1 /\ src.tail[2] = <<>>
    ELSE src.tail = <<<<>>>>

\* the payload of the data line, if any, is whole
PayloadWhole == (src.shape = "data" /\ ~src.hashonly) => (Len(src.tail) >= 1 /\ Len(src.tail[1]) = 1)

\* the stream has obj lines of the three shapes only, with a registered hash function
\* and a hash of an even number of digits, or a metadata line in their place, and no
\* line between them and the end but a payload and the blank line
FrameCase ==
  /\ src.shape \in {"none", "meta", "delete", "from", "data"} /\ src.extra = <<>>
  /\ src.shape = "data" => (src.hashfunc \in hashRegistry /\ Len(src.hash) % 2 = 0)
  /\ (src.shape # "data" \/ src.hashonly) => src.tail \in {<<>>, <<<<>>>>}

\* the number of the line at which the frame of the stream breaks
ErrorLine ==
  IF ~HeaderOk THEN Min(FirstBad, Len(StreamLines))
  ELSE IF src.shape = "meta" THEN Len(src.head) + 1
  ELSE Len(StreamLines)

\* readtxn raised the format error tagged with the line number n, and returned no record
FrameError(n) ==
  /\ pc = "raised" /\ rtxns = <<>>
  /\ rres.kind = "error" /\ rres.exc = "RuntimeError" /\ rres.lineno = n

\* C20: readtxn returns a Transaction only when the header line matches, is followed
\* by exactly the lines user, description, extension in this order, and the object
\* list is closed by a blank line; a mismatching header, a missing or misnamed
\* metadata line, or end of stream before the closing blank line raises an error
\* tagged with the line number instead of returning a record.
C20_NoPartialTransaction ==
  (FirstCallMade /\ FrameCase) =>
     /\ rtxns # <<>> => (HeaderOk /\ src.shape # "meta" /\ Closed)
     /\ ~(HeaderOk /\ src.shape # "meta" /\ Closed) => FrameError(ErrorLine)

\* the same for streams that do not end inside the payload of a data line
C20_CutAtLineBoundary ==
  (FirstCallMade /\ FrameCase /\ PayloadWhole) =>
     /\ rtxns # <<>> => (HeaderOk /\ src.shape # "meta" /\ Closed)
     /\ ~(HeaderOk /\ src.shape # "meta" /\ Closed) => FrameError(ErrorLine)

\* the stream ended inside the payload of a data line and readtxn neither returned
\* nor raised
C20_CutInPayload ==
  /\ FirstCallMade /\ FrameCase /\ HeaderOk /\ ~PayloadWhole /\ pc = "hang"

\* the stream ended after a whole payload, before the blank line, and readtxn raised
C20_CutAfterPayload ==
  /\ FirstCallMade /\ FrameCase /\ HeaderOk /\ src.shape = "data" /\ ~src.hashonly
  /\ PayloadWhole /\ ~Closed /\ FrameError(6)

\* a header without its user line was rejected at its second line
C20_MissingUser ==
  /\ FirstCallMade /\ FrameCase /\ FirstBad = 2 /\ Len(src.head) = 3 /\ FrameError(2)

\* C28: on every stream readtxn ends, by returning or by raising; a stream that ends
\* inside the payload of a data record is reported as an error.
C28_ReaderFinishes == FirstCallMade => (pc # "hang" /\ rres.kind # "hang")

\* C28, for all streams but those cut inside a payload: readtxn does not end only when
\* the stream holds fewer than size+1 bytes after a data line that announces a payload.
C28_FinishesUnlessCut ==
  (FirstCallMade /\ pc = "hang") =>
     /\ rres.kind = "hang" /\ rtxns = <<>>
     /\ src.shape = "data" /\ ~src.hashonly /\ HeaderOk
     /\ Len(zin) - EndOfLine(src, Len(src.head) + 1) < 2

\* C28: a payload that is whole is read and checked, and readtxn ends
C28_WholePayloadRead ==
  (FirstCallMade /\ src.shape = "data" /\ ~src.hashonly /\ HeaderOk
     /\ Len(zin) - EndOfLine(src, Len(src.head) + 1) >= 2) => (pc # "hang" /\ rres.kind # "hang")

\* the stream ended after the data line, or after the first of the two bytes that
\* make its payload, and readtxn did not end
C28_NoByteOfPayload ==
  /\ FirstCallMade /\ pc = "hang" /\ Len(zin) = EndOfLine(src, Len(src.head) + 1)
C28_OneByteOfPayload ==
  /\ FirstCallMade /\ pc = "hang" /\ Len(zin) = EndOfLine(src, Len(src.head) + 1) + 1

\* readtxn was called until it returned None, and never raised
ReadToEnd == pc = "eof" /\ rres.kind = "eof"

\* the obj line of the stream, if any, is written as zdump writes it
CanonicalObjLine ==
  /\ src.extra = <<>>
  /\ src.shape = "data" => src.obj = <<ObjDataLine(1, 1, src.hashfunc, src.hash, src.hashonly)>>

\* C30: for every stream that DumpReader reads to its end without raising, zdump() of
\* the transactions returned, concatenated, is the stream, byte for byte.
C30_ReaderRoundTrip == ReadToEnd => zdumpv(rtxns) = zin

\* C30, for streams whose obj line is written as zdump writes it: the round trip holds.
C30_CanonicalRoundTrip == (ReadToEnd /\ CanonicalObjLine) => zdumpv(rtxns) = zin

\* C30, for the other streams read to their end: zdump() of what was returned is the
\* stream without the characters after the obj shape and with the size in plain decimal.
C30_Normalised ==
  (ReadToEnd /\ ~CanonicalObjLine) =>
     /\ zdumpv(rtxns) # zin
     /\ zdumpv(rtxns) = StreamBytes([src EXCEPT !.obj =
          <<CASE src.shape = "delete" -> ObjDeleteLine(1)
              [] src.shape = "from" -> ObjCopyLine(1, 1)
              [] OTHER -> ObjDataLine(1, 1, src.hashfunc, src.hash, src.hashonly)>>])

\* a stream with 'x' after a deletion was read to its end
C30_ExtraDropped == ReadToEnd /\ src.shape = "delete" /\ src.extra = <<120>> /\ Len(rtxns) = 1

\* a stream with the size '01' and its payload was read to its end
C30_LeadingZero ==
  /\ ReadToEnd /\ src.obj = <<ObjDataLineZero>> /\ Len(rtxns) = 1
  /\ rtxns[1].objv[1].data = <<120>>

\* a stream with a data line and its payload, written as zdump writes it, was read
\* to its end
C30_CanonicalRead ==
  /\ ReadToEnd /\ CanonicalObjLine /\ src.shape = "data" /\ ~src.hashonly /\ Len(rtxns) = 1
----------------------------------------------------------------------------
\* SpecCmd: the command `zodb commit <storage> <at> < input` (zodbcommit.main) run
\* once on a storage with a history.  src describes the input: the lines of the
\* transaction without its txn line, and the bytes that follow them.

\* the artificial header with tid=0 that main puts before the input
TxnZeroLine == B_txn \o ashex(p64(0)) \o <<SP, DQUOTE, SP, DQUOTE, LF>>

\* zodbcommit.main with two arguments: [stor, calls, res, txn as for zodbcommit
\*   (calls = <<>> when it was not called), rd |-> what readtxn gave, zin |-> the
\*   bytes read, cmd |-> [rc, stdout], pc |-> "exit" or "hang"].  The exit code is 1
\* after sys.exit(1) and when an exception is raised and not caught.
main(s, a, stdin, py3) ==
  LET nocall == [stor |-> s, calls |-> <<>>, res |-> COk(0)]
      \* the command ends with exit code rc, com being what zodbcommit did
      ended(zin_, rd, com, rc, stdout, where) ==
        [stor |-> com.stor, calls |-> com.calls, res |-> com.res,
         txn |-> IF com.calls = <<>> THEN NoTxn ELSE rd.res.txn,
         rd |-> rd, zin |-> zin_, cmd |-> [rc |-> rc, stdout |-> stdout], pc |-> where]
      committed(zin_, rd, com) ==
        IF com.res.kind = "ok"
          THEN ended(zin_, rd, com, 0, ashex(p64(com.res.tid)) \o <<LF>>, "exit")
          ELSE ended(zin_, rd, com, 1, <<>>, "exit")
      read(zin_, rd) ==
        IF rd.res.kind = "hang" THEN ended(zin_, rd, nocall, -1, <<>>, "hang")
        ELSE IF rd.res.kind = "error" THEN ended(zin_, rd, nocall, 1, <<>>, "exit")
        ELSE IF DropFirst(zin_, rd.r.pos) # <<>>
          THEN ended(zin_, rd, nocall, 1, <<>>, "exit")
        \* readtxn gave None: zodbcommit(stor, at, None) raises on txn.tid
        ELSE IF rd.res.kind = "eof" THEN ended(zin_, rd, nocall, 1, <<>>, "exit")
        ELSE committed(zin_, rd, zodbcommit(s, a, rd.res.txn, 0))
      start(zin_) == read(zin_, readtxn(zin_, [DumpReader EXCEPT !.lineno = -1], py3))
  IN  start(TxnZeroLine \o stdin)

\* the object lines of an input, with the payload lines that follow them: none, a
\* deletion, data b'x', a copy, hash-only data, data that does not match its hash,
\* and a data line without its payload
CmdObjLines ==
  {<<>>,
   <<ObjDeleteLine(1)>>,
   <<ObjDataLine(1, 1, N_sha1, ashex(sha1(<<120>>)), FALSE), <<120>>>>,
   <<ObjCopyLine(1, 2)>>,
   <<ObjDataLine(1, 1, N_sha1, ashex(sha1(<<120>>)), TRUE)>>,
   <<ObjDataLine(1, 1, N_sha1, ashex(WrongHash(N_sha1, <<120>>)), FALSE), <<120>>>>,
   <<ObjDataLine(1, 1, N_sha1, ashex(sha1(<<120>>)), FALSE)>>}

\* the bytes of the lines ls, each followed by LF
LinesBytes(ls) == Concat([k \in 1..Len(ls) |-> ls[k] \o <<LF>>])

\* what follows the object lines: the blank line or not, and then nothing, an 'x',
\* an empty line, or a second transaction without its txn line
CmdInputs ==
  {[lines |-> SubSeq(StreamHeader, 2, 4) \o objs \o (IF closed THEN <<<<>>>> ELSE <<>>),
    closed |-> closed, garbage |-> g] :
     objs \in CmdObjLines, closed \in BOOLEAN,
     g \in {<<>>, <<120>>, <<LF>>, LinesBytes(SubSeq(StreamHeader, 2, 4) \o <<<<>>>>)}}

InitCmd ==
  /\ src \in CmdInputs
  /\ stor \in StorageKinds
  /\ prim = Storage(TRUE, TRUE) /\ at = z64 /\ it = <<>> /\ until = -1 /\ runs = 0
  /\ dargs = DumpArgs(z64, -1, FALSE) /\ cmd = NoOut /\ ex \in [py3 : BOOLEAN]
  /\ zin = <<>> /\ zr = DumpReader /\ rtxns = <<>> /\ rres = REof
  /\ calls = <<>> /\ cres = COk(0) /\ ctxn = NoTxn /\ cat = z64 /\ cpre = stor
  /\ pc = "idle"

\* `zodb commit <stor> <a>` with the input of src on stdin
CommitMain ==
  /\ pc = "idle"
  /\ \E a \in AtDomain(stor) :
       \E x \in {main(stor, a, LinesBytes(src.lines) \o src.garbage, ex.py3)} :
         /\ stor' = x.stor /\ calls' = x.calls /\ cres' = x.res /\ ctxn' = x.txn
         /\ cat' = a /\ cpre' = stor
         /\ zin' = x.zin /\ zr' = x.rd.r /\ rres' = x.rd.res
         /\ rtxns' = IF x.rd.res.kind = "txn" THEN <<x.rd.res.txn>> ELSE <<>>
         /\ cmd' = x.cmd
         /\ pc' = x.pc
  /\ UNCHANGED <<src, prim, at, it, until, runs, dargs, ex>>

NextCmd == Advance \/ CommitMain

SpecCmd == InitCmd /\ [][NextCmd]_vars

\* the command has run
MainRan == pc \in {"exit", "hang"}

\* the input did not parse, or holds bytes after its first transaction
BadInput == rres.kind # "txn" \/ DropFirst(zin, zr.pos) # <<>>

\* the command ended with a non-zero exit code, and zodbcommit was not called
RefusedUncalled == cmd.rc > 0 /\ calls = <<>> /\ stor = cpre

\* one transaction was committed in regular mode and its tid printed in hex
CommittedOne ==
  /\ ctxn.tid = z64 /\ calls # <<>> /\ calls[1].tid = 0
  /\ Len(stor.txns) = Len(cpre.txns) + 1
  /\ SubSeq(stor.txns, 1, Len(cpre.txns)) = cpre.txns
  /\ cmd.stdout = ashex(p64(lastTransaction(stor))) \o <<LF>>

\* C21: when the input holds any byte after the first complete transaction, or does
\* not parse, the command exits with a non-zero code and zodbcommit is never called;
\* when it succeeds it commits exactly one transaction in regular mode and prints
\* its tid in hex.
C21_CommandLine ==
  MainRan => /\ (BadInput => RefusedUncalled)
             /\ (cmd.rc = 0 => CommittedOne)

\* the same for the inputs on which readtxn returns or raises
C21_WhenReaderEnds ==
  (MainRan /\ rres.kind # "hang") => /\ (BadInput => RefusedUncalled)
                                      /\ (cmd.rc = 0 => CommittedOne)

\* the input ended inside a payload and the command did not exit
C21_NoExit == MainRan /\ rres.kind = "hang" /\ cmd.rc = -1 /\ pc = "hang"

\* a transaction followed by garbage was refused on a storage with a history
C21_GarbageRefused ==
  /\ MainRan /\ rres.kind = "txn" /\ src.garbage # <<>> /\ RefusedUncalled
  /\ stor.txns # <<>>

\* a transaction was committed on a storage with a history
C21_Committed == MainRan /\ cmd.rc = 0 /\ CommittedOne /\ cpre.txns # <<>>
----------------------------------------------------------------------------
\* zodbcmp (zodbcmp.py): two storages compared transaction by transaction.

\* the attribute extension of a stored transaction: the storage decodes it from the
\* extension bytes it keeps
extension(t) == t.extension_bytes

\* a txncmp that looks at the metadata only
txncmp_metadata_only(txn1, txn2) ==
  IF \/ txn1.tid # txn2.tid \/ txn1.status # txn2.status \/ txn1.user # txn2.user
     \/ txn1.description # txn2.description \/ extension(txn1) # extension(txn2)
  THEN 1 ELSE 0

\* txncmp(txn1, txn2): 0 - equal, 1 - non-equal
txncmp(txn1, txn2) ==
  LET \* objv1, objv2 are the records in canonical order
      data(objv1, objv2) ==
        IF Len(objv1) # Len(objv2) THEN 1
        ELSE IF \E k \in 1..Len(objv1) :
                  \/ objv1[k].oid # objv2[k].oid
                  \/ objv1[k].data # objv2[k].data
                  \/ objv1[k].data_txn # objv2[k].data_txn
          THEN 1
        ELSE 0
  IN  IF \/ txn1.tid # txn2.tid \/ txn1.status # txn2.status \/ txn1.user # txn2.user
         \/ txn1.description # txn2.description \/ extension(txn1) # extension(txn2)
      THEN 1
      ELSE data(txnobjv(txn1), txnobjv(txn2))

\* the iterator object stor.iterator(start, stop) returns: the transactions it has yet
\* to yield, and whether its class defines a method `next` beside `__next__`
\* (a generator and a list iterator do not)
IterObject(txnv, next) == [txnv |-> txnv, next |-> next]

\* the object iter has an attribute `next`: every iterator on Python 2; on Python 3
\* only an object whose class defines one
has_next(iter, py3) == ~py3 \/ iter.next

\* nextitem(it): [exc, item, ok, it |-> the iterator after the call]; `it.next()` raises
\* AttributeError when the object has no attribute `next`, before anything is taken
nextitem(iter, py3) ==
  IF ~has_next(iter, py3)
    THEN [exc |-> Err("AttributeError", 0), item |-> NoTxn, ok |-> FALSE, it |-> iter]
  ELSE IF iter.txnv = <<>>
    THEN [exc |-> NoErr, item |-> NoTxn, ok |-> FALSE, it |-> iter]
  ELSE [exc |-> NoErr, item |-> Head(iter.txnv), ok |-> TRUE,
        it |-> [iter EXCEPT !.txnv = Tail(@)]]

RECURSIVE cmp_loop(_, _, _)
\* the loop of storcmp over the two iterators: [exc |-> the exception that ended it,
\*   rc |-> what it returns (-1: nothing, it raised), it |-> <<iter1, iter2>> as they
\*   are left]
cmp_loop(iter1, iter2, py3) ==
  LET turn(n1, n2) ==
        IF n1.exc # NoErr THEN [exc |-> n1.exc, rc |-> -1, it |-> <<n1.it, iter2>>]
        ELSE IF n2.exc # NoErr THEN [exc |-> n2.exc, rc |-> -1, it |-> <<n1.it, n2.it>>]
        ELSE IF ~n1.ok /\ ~n2.ok THEN [exc |-> NoErr, rc |-> 0, it |-> <<n1.it, n2.it>>]
        ELSE IF ~n1.ok \/ ~n2.ok \/ n1.item.tid # n2.item.tid
          THEN [exc |-> NoErr, rc |-> 1, it |-> <<n1.it, n2.it>>]
        ELSE IF txncmp(n1.item, n2.item) # 0
          THEN [exc |-> NoErr, rc |-> 1, it |-> <<n1.it, n2.it>>]
        ELSE cmp_loop(n1.it, n2.it, py3)
  IN  turn(nextitem(iter1, py3), nextitem(iter2, py3))

\* storcmp(stor1, stor2, tidmin, tidmax) run by a Python 3 (py3) or a Python 2
\* interpreter; tidmax < 0 stands for None
storcmp(stor1, stor2, tidmin, tidmax, py3) ==
  cmp_loop(IterObject(iterator(stor1, tidmin, tidmax), stor1.iter_next),
           IterObject(iterator(stor2, tidmin, tidmax), stor2.iter_next), py3)

----------------------------------------------------------------------------
\* SpecCmp: storcmp called once on two storages with histories of their own.

\* a stored transaction with the default metadata
CmpTxn(tid, recs) ==
  [tid |-> tid, status |-> SP, user |-> <<>>, description |-> <<>>,
   extension_bytes |-> <<>>, recs |-> recs]

\* the transactions a storage may hold under tid after a transaction prev (0: none):
\* one, and those that differ from it in one attribute, in one attribute of a record
\* (data, deletion, a copy of the data of prev), in the number of records, and in
\* nothing but the order in which the storage yields its records
CmpTxns(tid, prev) ==
  LET base == CmpTxn(tid, <<DataRec(1, Some(<<120>>), 0), DataRec(2, Some(<<120>>), 0)>>)
  IN  {base,
       [base EXCEPT !.status = 112],
       [base EXCEPT !.user = <<97>>],
       [base EXCEPT !.description = <<97>>],
       [base EXCEPT !.extension_bytes = <<97>>],
       [base EXCEPT !.recs = <<DataRec(2, Some(<<120>>), 0), DataRec(1, Some(<<120>>), 0)>>],
       [base EXCEPT !.recs = <<DataRec(1, Some(<<120>>), 0), DataRec(2, Some(<<>>), 0)>>],
       [base EXCEPT !.recs = <<DataRec(1, Some(<<120>>), 0), DataRec(2, None, 0)>>],
       [base EXCEPT !.recs = <<DataRec(1, Some(<<120>>), 0), DataRec(2, Some(<<120>>), prev)>>],
       [base EXCEPT !.recs = <<DataRec(1, Some(<<120>>), 0)>>]}

\* the tids of the histories compared
CmpTids == {2, 4}

\* the histories compared: at most MaxTxns transactions, tids ascending
CmpHistories ==
  {<<>>} \cup {<<t>> : t \in UNION {CmpTxns(tid, 0) : tid \in CmpTids}}
         \cup {<<t, u>> : t \in {CmpTxn(2, <<DataRec(1, Some(<<120>>), 0)>>),
                                  CmpTxn(2, <<DataRec(1, Some(<<>>), 0)>>)},
                          u \in CmpTxns(4, 2)}

\* the storages compared: a history, and an iterator class with or without `next`
CmpStores ==
  {[restoreable |-> TRUE, exact_tid |-> TRUE, txns |-> txnv, iter_next |-> next] :
     txnv \in CmpHistories, next \in BOOLEAN}

InitCmp ==
  /\ prim \in CmpStores /\ stor \in CmpStores
  /\ at = z64 /\ it = <<>> /\ until = -1 /\ runs = 0
  /\ dargs = DumpArgs(z64, -1, FALSE) /\ cmd = NoOut
  /\ \E py3 \in BOOLEAN : ex = [py3 |-> py3]
  /\ zin = <<>> /\ zr = DumpReader /\ rtxns = <<>> /\ rres = REof /\ src = <<>>
  /\ calls = <<>> /\ cres = COk(0) /\ ctxn = NoTxn /\ cat = z64 /\ cpre = stor
  /\ pc = "idle"

\* storcmp(prim, stor, tidmin, tidmax): its result or the exception it raised, and the
\* iterators as it left them
Storcmp ==
  /\ pc = "idle"
  /\ \E tidmin \in {0, 3, 5}, tidmax \in {-1, 3} :
       \E x \in {storcmp(prim, stor, tidmin, tidmax, ex.py3)} :
         /\ cmd' = [rc |-> x.rc, stdout |-> <<>>]
         /\ it' = x.it
         /\ dargs' = DumpArgs(tidmin, tidmax, FALSE)
         /\ pc' = IF x.exc = NoErr THEN "compared" ELSE "raised"
  /\ UNCHANGED <<zin, zr, rtxns, rres, src, stor, prim, at, until, runs, calls, cres, ctxn,
                 cat, cpre, ex>>

NextCmp == Storcmp

SpecCmp == InitCmp /\ [][NextCmp]_vars

\* the transactions of storage s in the range compared
InRange(s) ==
  SelectSeq(s.txns, LAMBDA t : t.tid >= dargs.tidmin /\ (dargs.tidmax < 0 \/ t.tid <= dargs.tidmax))

\* what counts of a transaction: its metadata and its records, whatever their order
Content(t) ==
  [tid |-> t.tid, status |-> t.status, user |-> t.user, description |-> t.description,
   extension |-> t.extension_bytes, objs |-> {t.recs[k] : k \in 1..Len(t.recs)}]

\* the first position at which the two ranges differ, one past the longer when none
FirstDiff ==
  SetMin({k \in 1..(Max(Len(InRange(prim)), Len(InRange(stor))) + 1) :
            \/ k > Len(InRange(prim)) \/ k > Len(InRange(stor))
            \/ Content(InRange(prim)[k]) # Content(InRange(stor)[k])})

\* both ranges hold the same sequence of transactions
SameRanges == FirstDiff > Max(Len(InRange(prim)), Len(InRange(stor)))

\* storcmp read k transactions, or all there are, from the range of storage s, whose
\* iterator it left as rest
ReadUpTo(s, rest, k) == Len(rest.txnv) = Len(InRange(s)) - Min(k, Len(InRange(s)))

\* both iterator objects have an attribute `next` under the interpreter in use
BothHaveNext == (~ex.py3) \/ (prim.iter_next /\ stor.iter_next)

\* C22: storcmp returns 0 exactly when both storages hold, in the range, the same
\* sequence of transactions with equal tid, status, user, description, extension and
\* equal records (oid, data, data_txn) in canonical oid order; it returns 1 otherwise,
\* having stopped at the first differing position, also when one storage has extra
\* transactions at the end.
C22_StorcmpExact ==
  pc # "idle" =>
    /\ pc = "compared"
    /\ cmd.rc = (IF SameRanges THEN 0 ELSE 1)
    /\ ReadUpTo(prim, it[1], FirstDiff) /\ ReadUpTo(stor, it[2], FirstDiff)

\* The same when both iterators have a method `next` (any iterator on Python 2, an
\* iterator class that defines it on Python 3): it holds.
C22_ExactWithNext ==
  (pc # "idle" /\ BothHaveNext) =>
    /\ pc = "compared"
    /\ cmd.rc = (IF SameRanges THEN 0 ELSE 1)
    /\ ReadUpTo(prim, it[1], FirstDiff) /\ ReadUpTo(stor, it[2], FirstDiff)

\* On Python 3 an iterator without `next` makes storcmp raise AttributeError at its
\* first nextitem, whatever the storages hold.
C22_RaisesWithoutNext ==
  (pc # "idle" /\ ~BothHaveNext) =>
    /\ pc = "raised"
    /\ it[2].txnv = InRange(stor)
    /\ Len(it[1].txnv) >= Len(InRange(prim)) - 1

\* two equal histories under Python 3, iterated by generators: storcmp raised
C22_RaisedOnEqual ==
  /\ pc = "raised" /\ ex.py3 /\ ~prim.iter_next /\ ~stor.iter_next
  /\ prim.txns = stor.txns /\ Len(InRange(prim)) = 2

\* two histories whose last transactions differ in the order of their records only
\* were found equal
C22_Witness ==
  /\ pc = "compared" /\ cmd.rc = 0 /\ prim.txns # stor.txns
  /\ Len(InRange(prim)) = 2

\* a storage with one transaction more at the end was found different
C22_ExtraAtEnd ==
  /\ pc = "compared" /\ cmd.rc = 1
  /\ Len(InRange(prim)) = 1 /\ Len(InRange(stor)) = 2 /\ FirstDiff = 2

\* a difference in the first of two transactions stopped the comparison there
C22_StoppedAtFirst ==
  /\ pc = "compared" /\ cmd.rc = 1 /\ FirstDiff = 1
  /\ Len(InRange(prim)) = 2 /\ Len(InRange(stor)) = 2 /\ Len(it[1].txnv) = 1
----------------------------------------------------------------------------
\* Properties of the calls zodbcommit issues (Spec).

\* the calls that write an object
WriteOps == {"store", "restore", "deleteObject"}

\* the positions in calls of the calls whose op is in ops
CallsAt(ops) == {k \in 1..Len(calls) : calls[k].op \in ops}

\* the write calls among calls, in the order issued
WriteCalls == SelectSeq(calls, LAMBDA c : c.op \in WriteOps)

\* the k-th write call is the one due for the k-th record of the transaction handed in
WriteFor(k) ==
  /\ WriteCalls[k].oid = ctxn.objv[k].oid
  /\ WriteCalls[k].op = "deleteObject" <=> ctxn.objv[k].kind = "delete"

\* C23: every zodbcommit call issues exactly one tpc_begin first, then the per-object
\* store/restore/deleteObject calls in the order of txn.objv, then tpc_vote, then
\* tpc_finish; once begun the call ends with exactly one of tpc_finish or tpc_abort,
\* and no per-object call is issued after tpc_vote.
C23_ProtocolOrder ==
  calls # <<>> =>
    /\ CallsAt({"tpc_begin"}) = {1}
    /\ Len(WriteCalls) <= Len(ctxn.objv)
    /\ \A k \in 1..Len(WriteCalls) : WriteFor(k)
    /\ Cardinality(CallsAt({"tpc_finish", "tpc_abort"})) = 1
    /\ CallsAt({"tpc_finish", "tpc_abort"}) = {Len(calls)}
    /\ Cardinality(CallsAt({"tpc_vote"})) <= 1
    /\ \A v \in CallsAt({"tpc_vote"}) : \A w \in CallsAt(WriteOps) : w < v
    /\ calls[Len(calls)].op = "tpc_finish" =>
         /\ CallsAt({"tpc_vote"}) = {Len(calls) - 1}
         /\ Len(WriteCalls) = Len(ctxn.objv)

\* a transaction of two records, the second a deletion, went through begin, the two
\* writes in order, vote and finish
C23_Witness ==
  /\ pc = "called" /\ Len(ctxn.objv) = 2 /\ ctxn.objv[1].oid = 2 /\ ctxn.objv[2].kind = "delete"
  /\ ctxn.objv[1].kind = "data"
  /\ Len(WriteCalls) = 2 /\ calls[Len(calls)].op = "tpc_finish"

\* a call was aborted after the vote was refused
C23_AbortedAtVote ==
  /\ pc = "called" /\ Len(calls) >= 3 /\ calls[Len(calls)].op = "tpc_abort"
  /\ calls[Len(calls) - 1].op = "tpc_vote" /\ WriteCalls # <<>>

----------------------------------------------------------------------------
\* Properties of what zodbdump writes (Spec).

\* the record of the dump format that describes the stored record rec with sha1
RecordOf(rec, hashonly) ==
  IF ~rec.data.some THEN ObjectDelete(rec.oid)
  ELSE IF rec.data_txn # 0 THEN ObjectCopy(rec.oid, rec.data_txn)
  ELSE IF hashonly THEN ObjectDataHashOnly(rec.oid, Len(rec.data.v), N_sha1, sha1(rec.data.v))
  ELSE ObjectData(rec.oid, rec.data.v, N_sha1, sha1(rec.data.v))

\* the record of t that has k - 1 records of smaller oid in t
KthByOid(t, k) ==
  CHOOSE rec \in {t.recs[j] : j \in 1..Len(t.recs)} :
    Cardinality({j \in 1..Len(t.recs) : t.recs[j].oid < rec.oid}) = k - 1

\* the Transaction with the tid, status, user, description and extension of the
\* stored transaction t and its objects listed in ascending oid order
TransactionOf(t, hashonly) ==
  Transaction(t.tid, t.status, t.user, t.description, t.extension_bytes,
              [k \in 1..Len(t.recs) |-> RecordOf(KthByOid(t, k), hashonly)])

\* the stored transactions in the range of the last zodbdump call
DumpRange ==
  SelectSeq(stor.txns, LAMBDA t : t.tid >= dargs.tidmin /\ (dargs.tidmax < 0 \/ t.tid <= dargs.tidmax))

\* C24: for every committed transaction the bytes zodbdump writes for it in raw mode
\* equal Transaction.zdump() of the record with the same tid, status, user,
\* description, extension and the objects, described with sha1, in ascending oid order.
C24_WritersAgree ==
  pc = "dumped" =>
    zin = zdumpv([k \in 1..Len(DumpRange) |-> TransactionOf(DumpRange[k], dargs.hashonly)])

\* two transactions were dumped with their data, the first with its records stored
\* out of oid order, the second with a record that copies from the first
C24_Witness ==
  /\ pc = "dumped" /\ ~dargs.hashonly /\ Len(DumpRange) = 2
  /\ Len(DumpRange[1].recs) = 2 /\ DumpRange[1].recs[1].oid > DumpRange[1].recs[2].oid
  /\ DumpRange[2].recs[1].data_txn # 0
  /\ zin = zdump(TransactionOf(DumpRange[1], FALSE)) \o zdump(TransactionOf(DumpRange[2], FALSE))

\* C27: whenever zodbcommit ends by raising, whatever the reason, the committed
\* transactions of the storage are those it held before the call.
C27_FailureLeavesHistory == (HasCalled /\ cres.kind = "raise") => stor.txns = cpre.txns

\* C27, up to tpc_finish: a zodbcommit that raised without calling tpc_finish left the
\* committed transactions as they were.
C27_UnchangedBeforeFinish ==
  (HasCalled /\ cres.kind = "raise" /\ CallsOf({"tpc_finish"}) = {}) => stor.txns = cpre.txns

\* C27, after tpc_finish: a zodbcommit that raised after tpc_finish raised over the tid;
\* the transaction is committed, whole, under a tid that is not txn.tid.
C27_CommittedUnderOtherTid ==
  (HasCalled /\ cres.kind = "raise" /\ CallsOf({"tpc_finish"}) # {}) =>
     /\ ctxn.tid # z64
     /\ Len(stor.txns) = Len(cpre.txns) + 1
     /\ SubSeq(stor.txns, 1, Len(cpre.txns)) = cpre.txns
     /\ lastTransaction(stor) # ctxn.tid
     /\ Len(stor.txns[Len(stor.txns)].recs) = Len(ctxn.objv)

\* zodbcommit raised and the storage holds one transaction more than before
C27_RaisedAndCommitted ==
  /\ HasCalled /\ cres.kind = "raise" /\ Len(stor.txns) = Len(cpre.txns) + 1
  /\ calls[Len(calls)].op = "tpc_finish" /\ Len(ctxn.objv) = 2

----------------------------------------------------------------------------
\* zodbtraverse: Explorer walks the object graph from the root and records the
\* oids it could load in a SQLite table; every CHECKPOINT_FREQUENCY iterations
\* it pickles its queues into <workspace>/state.pickle.
\*
\* src is the storage as _load and referencesf show it: for every oid either
\* None (loadBefore raises POSKeyError) or the list of oids its data refers to.
\* ex holds the Explorer (tuning attributes, q, qload, iteration_index, the
\* deferred rows of SQLiteManager), the SQLite table and the checkpoint file, and
\* remembers how often the process was killed, whether a checkpoint was ever
\* written in full and whether the traversal was resumed.

\* Explorer's tuning attributes and SQLiteManager's batch size, as the source sets them
MIN_Q_SIZE == 1000
CHECKPOINT_FREQUENCY == 50
OID_BATCH_PROCESS_SIZE == 500
MIN_INSERT_QUERY_SIZE == 500

\* most times the process is killed in one behaviour
MaxKills == 1

\* x in s, for a deque or a list
InSeq(x, s) == \E k \in 1..Len(s) : s[k] = x

\* state.pickle: absent, truncated by open(path, "w"), or holding a pickled state
NoFile == [state |-> "absent", iteration_index |-> 0, q |-> <<>>, qload |-> <<>>]
EmptyFile == [state |-> "empty", iteration_index |-> 0, q |-> <<>>, qload |-> <<>>]

\* Explorer(zurl, workspace) on interpreter py3 with the given tuning, before __call__
Explorer(py3, min_q_size, checkpoint_frequency, oid_batch_process_size) ==
  [py3 |-> py3, MIN_Q_SIZE |-> min_q_size, CHECKPOINT_FREQUENCY |-> checkpoint_frequency,
   OID_BATCH_PROCESS_SIZE |-> oid_batch_process_size,
   q |-> <<>>, qload |-> <<>>, iteration_index |-> 0, loadToQ |-> FALSE, n |-> 0,
   rows |-> <<>>, table |-> {}, file |-> NoFile, err |-> "", kills |-> 0, resumed |-> FALSE, saved |-> FALSE]

\* WithDB._load: storage.loadBefore(oid, tid), None on POSKeyError
_load(g, oid) == IF oid \in DOMAIN g THEN g[oid] ELSE None

\* SQLiteManager._addRows: one INSERT of row_list into the table, whose oid column is
\* UNIQUE; the statement fails as a whole
_addRows(table, row_list) ==
  IF row_list = <<>> THEN [table |-> table, err |-> ""]
  ELSE IF \/ \E k \in 1..Len(row_list) : \E r \in table : r[1] = row_list[k][1]
          \/ \E j, k \in 1..Len(row_list) : j # k /\ row_list[j][1] = row_list[k][1]
       THEN [table |-> table, err |-> "IntegrityError"]
       ELSE [table |-> table \cup {row_list[k] : k \in 1..Len(row_list)}, err |-> ""]

\* SQLiteManager._maybeAddRows(table_name, None, min_size) on the deferred rows row_list:
\* the rows are inserted once there are min_size of them
_maybeAddRows(table, row_list, min_size) ==
  IF Len(row_list) >= min_size
  THEN LET add(r) == [table |-> r.table, rows |-> IF r.err = "" THEN <<>> ELSE row_list, err |-> r.err]
       IN  add(_addRows(table, row_list))
  ELSE [table |-> table, rows |-> row_list, err |-> ""]

\* SQLiteManager.addObject(oid, iteration_index, table_name)
addObject(e, oid) ==
  LET put(r) == [e EXCEPT !.table = r.table, !.rows = r.rows, !.err = r.err]
  IN  put(_maybeAddRows(e.table, Append(e.rows, <<oid, e.iteration_index>>), MIN_INSERT_QUERY_SIZE))

\* SQLiteManager.proceedDeferredInserts()
proceedDeferredInserts(e) ==
  LET put(r) == [e EXCEPT !.table = r.table, !.rows = r.rows, !.err = r.err]
  IN  put(_maybeAddRows(e.table, e.rows, 1))

\* SQLiteManager.close(), deferred by WithDB.__call__: what is still deferred is
\* inserted.  When this insert fails the rows stay deferred and its error is the one
\* that leaves __call__, also when another was on its way; else that one goes on.
close(e) ==
  LET put(r) == [e EXCEPT !.table = r.table, !.rows = r.rows,
                          !.err = IF r.err # "" THEN r.err ELSE e.err]
  IN  put(_maybeAddRows(e.table, e.rows, 1))

\* SQLiteManager.getNotYetExistObjectList(oid_list, table_name)
getNotYetExistObjectList(e, oid_list) ==
  LET not_deferred == SelectSeq(oid_list, LAMBDA oid : ~\E k \in 1..Len(e.rows) : e.rows[k][1] = oid)
  IN  SelectSeq(not_deferred, LAMBDA oid : ~\E r \in e.table : r[1] = oid)

\* a resume that keeps every row the table holds
dropObjectsNewerThan_nothing(table, iteration_index) == table

\* SQLiteManager.dropObjectsNewerThan(iteration_index, table_name)
dropObjectsNewerThan(table, iteration_index) == {r \in table : ~(r[2] > iteration_index)}

\* the first loop of _iteration1: up to k oids are popped from the right of q; temp
\* gathers those not seen in this batch and not waiting in qload
RECURSIVE pop_batch(_, _, _, _)
pop_batch(q, qload, temp, k) ==
  IF k = 0 THEN [q |-> q, temp |-> temp, loadToQ |-> FALSE]
  ELSE IF q = <<>> THEN [q |-> q, temp |-> temp, loadToQ |-> TRUE]
  ELSE pop_batch(SubSeq(q, 1, Len(q) - 1), qload,
                 IF ~InSeq(q[Len(q)], temp) /\ ~InSeq(q[Len(q)], qload)
                 THEN Append(temp, q[Len(q)]) ELSE temp,
                 k - 1)

\* _iteration1 up to the call of loadToQ
iteration1_pop(e) ==
  LET extend(b) == [e EXCEPT !.q = b.q, !.loadToQ = b.loadToQ, !.n = 0,
                             !.qload = e.qload \o getNotYetExistObjectList(e, b.temp)]
  IN  extend(pop_batch(e.q, e.qload, <<>>, e.OID_BATCH_PROCESS_SIZE))

\* a load that records the oid whether or not it could be loaded
load_recording_unloadable(g, e, oid) ==
  [e |-> addObject(e, oid), refs |-> IF _load(g, oid) = None THEN <<>> ELSE _load(g, oid).v]

\* Explorer.load(oid, iteration_index): the Explorer afterwards and the references
load(g, e, oid) ==
  IF _load(g, oid) = None
  THEN [e |-> e, refs |-> <<>>]
  ELSE [e |-> addObject(e, oid), refs |-> _load(g, oid).v]

\* the inner loop of loadToQ: the references not yet in q are appended, n counts them
RECURSIVE append_new(_, _, _)
append_new(q, n, refs) ==
  IF refs = <<>> THEN [q |-> q, n |-> n]
  ELSE IF InSeq(Head(refs), q) THEN append_new(q, n, Tail(refs))
       ELSE append_new(Append(q, Head(refs)), n + 1, Tail(refs))

\* one round of the loop of loadToQ: qload.pop(), load, append
loadToQ1(g, e) ==
  LET nextoid == e.qload[Len(e.qload)]
      popped == [e EXCEPT !.qload = SubSeq(e.qload, 1, Len(e.qload) - 1)]
      put(l) == LET app(a) == [l.e EXCEPT !.q = a.q, !.n = a.n]
                IN  IF l.e.err # "" THEN l.e ELSE app(append_new(l.e.q, l.e.n, l.refs))
  IN  put(load(g, popped, nextoid))

\* pickle.dump of the state into a file opened with mode "w": Python 3 refuses to
\* write bytes into a text file
pickle_dump(e) ==
  IF e.py3 THEN [e EXCEPT !.err = "TypeError"]
  ELSE [e EXCEPT !.file = [state |-> "saved", iteration_index |-> e.iteration_index,
                           q |-> e.q, qload |-> e.qload],
                 !.saved = TRUE]

\* Explorer.restoreCheckpoint: open(checkpoint_path, 'r') (there must be a file),
\* pickle.load from it (Python 3 refuses to unpickle text; a truncated file ends
\* early), dropObjectsNewerThan, and the queues and the next iteration_index of _main
restoreCheckpoint(e) ==
  IF e.file.state = "absent"
    THEN [e EXCEPT !.err = IF e.py3 THEN "FileNotFoundError" ELSE "IOError"]
  ELSE IF e.py3 THEN [e EXCEPT !.err = "TypeError"]
  ELSE IF e.file.state = "empty" THEN [e EXCEPT !.err = "EOFError"]
  ELSE [e EXCEPT !.table = dropObjectsNewerThan(e.table, e.file.iteration_index),
                 !.q = e.file.q, !.qload = e.file.qload,
                 !.iteration_index = e.file.iteration_index + 1]

\* the process is gone with what it held in memory; the table and the file stay
killed(e) ==
  [e EXCEPT !.q = <<>>, !.qload = <<>>, !.rows = <<>>, !.loadToQ = FALSE, !.n = 0,
            !.iteration_index = 0, !.err = "", !.kills = e.kills + 1]

\* a new process: Explorer(zurl, workspace) over the same workspace
restarted(e) ==
  [e EXCEPT !.q = <<>>, !.qload = <<>>, !.rows = <<>>, !.loadToQ = FALSE, !.n = 0,
            !.iteration_index = 0, !.err = "", !.resumed = TRUE]

\* the lists of references an object holds
RefLists == {<<>>, <<0>>, <<1>>, <<2>>, <<1, 2>>, <<2, 1>>, <<1, 1>>}
\* the storages traversed: oids 0 (the root), 1 and 2, each unloadable or referring
Graphs == [0..2 -> {None} \cup {Some(r) : r \in RefLists}]

InitTraverse ==
  /\ src \in Graphs
  /\ ex \in {Explorer(py3, m, c, b) : py3 \in BOOLEAN, m \in {1, MIN_Q_SIZE},
             c \in {1, 2, CHECKPOINT_FREQUENCY}, b \in {1, OID_BATCH_PROCESS_SIZE}}
  /\ prim = Storage(TRUE, TRUE) /\ stor = Storage(TRUE, TRUE)
  /\ at = z64 /\ it = <<>> /\ until = -1 /\ runs = 0
  /\ dargs = DumpArgs(z64, -1, FALSE) /\ cmd = NoOut
  /\ zin = <<>> /\ zr = DumpReader /\ rtxns = <<>> /\ rres = REof
  /\ calls = <<>> /\ cres = COk(0) /\ ctxn = NoTxn /\ cat = z64 /\ cpre = stor
  /\ pc = "idle"

TraverseFrame ==
  UNCHANGED <<zin, zr, rtxns, rres, src, stor, prim, at, calls, cres, ctxn, cat, cpre, it,
              until, runs, dargs, cmd>>

\* where an iteration goes on after its first loop, or after a round of loadToQ
AfterLoad(e) ==
  IF e.err # "" THEN "raised"
  ELSE IF e.loadToQ /\ e.n < e.MIN_Q_SIZE /\ e.qload # <<>> THEN "load" ELSE "save"

\* Explorer._main(None) up to traverse: a new table, the root in q
StartTraverse ==
  /\ pc = "idle"
  /\ ex' = [ex EXCEPT !.table = {}, !.q = <<z64>>, !.qload = <<>>, !.iteration_index = 0]
  /\ pc' = "traverse"
  /\ TraverseFrame

\* traverse: the loop goes on; _iteration1 up to loadToQ
PopBatch ==
  /\ pc = "traverse" /\ (ex.q # <<>> \/ ex.qload # <<>>)
  /\ \E e \in {iteration1_pop(ex)} :
       /\ ex' = e
       /\ pc' = AfterLoad(e)
  /\ TraverseFrame

\* loadToQ: one round of its loop
LoadToQ ==
  /\ pc = "load"
  /\ \E e \in {loadToQ1(src, ex)} :
       /\ ex' = IF e.err # "" THEN close(e) ELSE e
       /\ pc' = AfterLoad(e)
  /\ TraverseFrame

\* saveCheckpoint up to open: nothing in iterations that are not checkpointed, where
\* traverse goes on with the next index; else the deferred rows are inserted
SaveCheckpoint ==
  /\ pc = "save"
  /\ IF ex.iteration_index % ex.CHECKPOINT_FREQUENCY # 0
     THEN /\ ex' = [ex EXCEPT !.iteration_index = ex.iteration_index + 1]
          /\ pc' = "traverse"
     ELSE \E e \in {proceedDeferredInserts(ex)} :
            /\ ex' = IF e.err # "" THEN close(e) ELSE e
            /\ pc' = IF e.err # "" THEN "raised" ELSE "open"
  /\ TraverseFrame

\* saveCheckpoint: open("state.pickle", "w") truncates the file
OpenCheckpoint ==
  /\ pc = "open"
  /\ ex' = [ex EXCEPT !.file = EmptyFile]
  /\ pc' = "dump"
  /\ TraverseFrame

\* saveCheckpoint: pickle.dump and the end of the iteration
DumpCheckpoint ==
  /\ pc = "dump"
  /\ \E e \in {pickle_dump(ex)} :
       /\ ex' = IF e.err # "" THEN close(e)
                ELSE [e EXCEPT !.iteration_index = e.iteration_index + 1]
       /\ pc' = IF e.err # "" THEN "raised" ELSE "traverse"
  /\ TraverseFrame

\* traverse has ended: the tail of _main and the deferred close
EndTraverse ==
  /\ pc = "traverse" /\ ex.q = <<>> /\ ex.qload = <<>>
  /\ \E e \in {proceedDeferredInserts(ex)} :
       /\ ex' = close(e)
       /\ pc' = IF e.err # "" THEN "raised" ELSE "done"
  /\ TraverseFrame

\* the process is killed while it traverses
Kill ==
  /\ pc \in {"traverse", "load", "save", "open", "dump"}
  /\ ex.kills < MaxKills
  /\ ex' = killed(ex)
  /\ pc' = "killed"
  /\ TraverseFrame

\* Explorer._main(checkpoint_path) up to traverse, in a new process, on the file that
\* the earlier one left, if it left one
Resume ==
  /\ pc \in {"killed", "raised", "done"}
  /\ \E e \in {restoreCheckpoint(restarted(ex))} :
       /\ ex' = IF e.err # "" THEN close(e) ELSE e
       /\ pc' = IF e.err # "" THEN "raised" ELSE "traverse"
  /\ TraverseFrame

NextTraverse ==
  \/ StartTraverse \/ PopBatch \/ LoadToQ \/ SaveCheckpoint \/ OpenCheckpoint
  \/ DumpCheckpoint \/ EndTraverse \/ Kill \/ Resume

SpecTraverse == InitTraverse /\ [][NextTraverse]_vars

\* the oids in the table
Recorded == {r[1] : r \in ex.table}

\* the oids that can be loaded and are referred to by a loaded object of S
RECURSIVE ReachFrom(_)
ReachFrom(S) ==
  LET more == {o \in DOMAIN src : /\ _load(src, o) # None
                                  /\ \E p \in S : InSeq(o, _load(src, p).v)}
  IN  IF more \subseteq S THEN S ELSE ReachFrom(S \cup more)

\* loadable and reachable from the root through loadable objects
Reachable == IF _load(src, z64) = None THEN {} ELSE ReachFrom({z64})

TraverseEnded == pc \in {"done", "raised"}

\* a traversal that no kill and no resume interrupted
NeverStopped == ex.kills = 0 /\ ~ex.resumed

\* C25: when an uninterrupted Explorer.traverse has ended, on any object graph, the
\* oids recorded in the table are exactly those that can be loaded and are reachable
\* from the root through loadable objects: no unloadable one, no unreachable one,
\* none missing.
C25_TraverseExact == (TraverseEnded /\ NeverStopped) => Recorded = Reachable

\* C25, where state.pickle can be written (Python 2): the traversal ends without an
\* error, INSERT never met an oid a second time, and the table is exact.
C25_ExactOnPython2 ==
  (TraverseEnded /\ NeverStopped /\ ~ex.py3) => (pc = "done" /\ ex.err = "" /\ Recorded = Reachable)

\* C25, on Python 3: the traversal ends in the first checkpoint, with TypeError, having
\* recorded at most the root.
C25_RaisesOnPython3 ==
  (TraverseEnded /\ NeverStopped /\ ex.py3) =>
     (pc = "raised" /\ ex.err = "TypeError" /\ Recorded \subseteq {z64} /\ ex.file = EmptyFile)

\* a traversal of a graph with a cycle, an unloadable and an unreachable object has ended
C25_WalkedAll ==
  /\ pc = "done" /\ NeverStopped /\ Recorded = {0, 1}
  /\ src[0] = Some(<<1, 2>>) /\ src[1] = Some(<<0>>) /\ src[2] = None

\* a traversal has ended with TypeError and left a reachable object out
C25_StoppedAtRoot ==
  /\ pc = "raised" /\ NeverStopped /\ ex.err = "TypeError" /\ Recorded = {0} /\ Reachable = {0, 1, 2}

\* the traversal, where nothing kills the process: every step that can be taken is taken
SpecTraverseFair ==
  /\ SpecTraverse
  /\ WF_vars(StartTraverse \/ PopBatch \/ LoadToQ \/ SaveCheckpoint \/ OpenCheckpoint
             \/ DumpCheckpoint \/ EndTraverse)

\* C25, termination: every traversal that is not killed ends, by returning or by raising
C25_Terminates == <>(TraverseEnded \/ pc = "killed")

\* C26: a traversal that was stopped after a checkpoint had been saved, and then
\* resumed from state.pickle, ends with exactly the oids an uninterrupted traversal
\* records: no part of the graph is lost.
C26_ResumeExact ==
  (TraverseEnded /\ ex.resumed /\ ex.saved) => (pc = "done" /\ Recorded = Reachable)

\* C26, for the resumes that could read the file: a resumed traversal that returns has
\* recorded exactly the loadable reachable oids, and a resumed traversal raises only
\* because state.pickle could not be read (or, where no checkpoint was ever begun,
\* opened), never because of the table.
C26_ExactWhenRestored ==
  /\ (pc = "done" /\ ex.resumed) => Recorded = Reachable
  /\ (pc = "raised" /\ ex.resumed) =>
       IF ex.file.state = "absent" THEN ex.err \in {"FileNotFoundError", "IOError"}
       ELSE ex.err \in {"EOFError", "TypeError"}

\* a resume found no state.pickle: the process had been killed before its first
\* checkpoint
C26_NoCheckpointFile ==
  /\ pc = "raised" /\ ex.resumed /\ ex.kills = 1 /\ ex.file = NoFile
  /\ ex.err = (IF ex.py3 THEN "FileNotFoundError" ELSE "IOError")

\* a resume met the file truncated by the saveCheckpoint that was under way at the kill
C26_TornCheckpoint ==
  /\ pc = "raised" /\ ex.resumed /\ ex.saved /\ ex.kills = 1 /\ ex.err = "EOFError"
  /\ ex.file = EmptyFile /\ Recorded # Reachable

\* a resume dropped rows newer than the checkpoint and the traversal then recorded all
C26_ResumedAfterDrop ==
  /\ pc = "done" /\ ex.resumed /\ ex.kills = 1 /\ Recorded = {0, 1, 2}
  /\ \E r \in ex.table : r[2] > ex.file.iteration_index

----------------------------------------------------------------------------
\* zodbrestore on dumps that may hold the zero tid (SpecRestoreZero).

\* the tids of the dumps: the zero tid, which `zodb commit` puts before its input, and
\* those of SpecRestore
RestoreZeroTids == {0} \cup RestoreTids

RestoreZeroTxns ==
  {Transaction(tid, Plain.status, Plain.user, Plain.description, Plain.extension_bytes, objv) :
     tid \in RestoreZeroTids, objv \in RestoreObjvs}

InitRestoreZero ==
  /\ src \in SeqsUpTo(RestoreZeroTxns, MaxTxns)
  /\ zin = zdumpv(src)
  /\ zr = DumpReader /\ rtxns = <<>> /\ rres = REof
  /\ stor \in StorageKinds
  /\ prim = Storage(TRUE, TRUE) /\ at = z64 /\ it = <<>> /\ until = -1 /\ runs = 0 /\ dargs = DumpArgs(z64, -1, FALSE)
  /\ cmd = NoOut /\ ex \in [py3 : BOOLEAN]
  /\ calls = <<>> /\ cres = COk(0) /\ ctxn = NoTxn /\ cat = z64 /\ cpre = stor
  /\ pc = "restore"

NextRestoreZero == RestoreStep

SpecRestoreZero == InitRestoreZero /\ [][NextRestoreZero]_vars

\* zodbrestore has handed a transaction to zodbcommit
Restoring == pc \in {"restore", "restore_done", "restore_hang", "restore_raised"} /\ HasCalled

\* C29: at every call zodbrestore makes to zodbcommit(stor, at, txn), at is the
\* lastTransaction() of the storage at that moment, whatever tids the dump holds, the
\* zero tid included.
C29_AtIsHead == Restoring => cat = lastTransaction(cpre)

\* C29, for dumps where no transaction with the zero tid comes before another one: at
\* is the head of the storage at every call.
C29_HeadAfterRealTids ==
  (Restoring /\ \A k \in 1..Len(src) : (src[k].tid = z64 => k = Len(src))) =>
     cat = lastTransaction(cpre)

\* C29, after the zero tid: the transaction was committed under a tid the storage
\* chose, and the next call states the zero tid as `at`.
C29_ZeroAfterZeroTid ==
  (Restoring /\ cat # lastTransaction(cpre)) =>
     /\ cat = z64 /\ cpre.txns # <<>>
     /\ Len(src) = 2 /\ src[1].tid = z64 /\ ctxn = src[2]

\* the second transaction of a dump was handed on with at = 0 to a storage whose
\* head is the tid given to the first one
C29_StaleAt ==
  /\ Restoring /\ cat = z64 /\ lastTransaction(cpre) = 1 /\ ctxn.tid = 2
  /\ src[1].tid = z64

\* the second transaction of a dump of real tids was handed on with at the head
C29_SecondCall ==
  /\ Restoring /\ cat = 2 /\ lastTransaction(cpre) = 2 /\ ctxn.tid = 4 /\ cres.kind = "ok"
====
